---- MODULE Spec2Model ----
(***************************************************************************)
(* Model of the named-pipe subsystem in server/named_pipe.c: the pipe      *)
(* server state machine, the pairing of pipe ends by a client open, the    *)
(* disconnect primitive, and the message-mode read/write engine.           *)
(*                                                                         *)
(* The wineserver is single threaded: every request handler and every      *)
(* object destructor runs to completion, so each one is a single action.   *)
(* The C functions are operators from a heap record to a heap record; the  *)
(* actions apply them to the variables.                                    *)
(*                                                                         *)
(* Allocation failures (alloc_object, alloc_handle, malloc, socketpair)    *)
(* are not taken in the specifications below: they assume the host grants  *)
(* every resource.                                                         *)
(***************************************************************************)
EXTENDS Integers, Sequences, FiniteSets, TLC

(* ------------------------------ bounds -------------------------------- *)
MaxServers == 2         \* pipe_server objects that can exist at once
MaxClients == 1         \* pipe_client objects that can exist at once
MaxBytes == 8           \* bytes in flight in the message specification
MaxReads == 2           \* asyncs pending in one read queue
MaxMsgs == 3            \* messages queued on one pipe end
MaxSize == 5            \* largest read or write request, in bytes
ConnBytes == 3          \* bytes in flight in the connection specification
ConnMsgs == 2           \* messages queued on one pipe end there
MaxWaiters == 1         \* FSCTL_PIPE_WAIT requests queued on the pipe
CreateMax == 2          \* largest maxinstances a create request of the create specification quotes
WaitCallers == 2        \* FSCTL_PIPE_WAIT requests queued in the waiter specification
MaxSock == 2            \* unread bytes a byte-mode socket holds
MaxFlushes == 1         \* flush asyncs pending on one pipe end

NULL == 0
Servers == 1..MaxServers
Clients == (MaxServers + 1)..(MaxServers + MaxClients)
Ends == Servers \cup Clients

(* flag and access bits are modelled as sets of names *)
MSG_WRITE == "NAMED_PIPE_MESSAGE_STREAM_WRITE"
MSG_READ == "NAMED_PIPE_MESSAGE_STREAM_READ"
NONBLOCKING == "NAMED_PIPE_NONBLOCKING_MODE"
SHARE_READ == "FILE_SHARE_READ"
SHARE_WRITE == "FILE_SHARE_WRITE"
GENERIC_READ == "GENERIC_READ"
GENERIC_WRITE == "GENERIC_WRITE"

VARIABLES
    pipe,            \* the struct named_pipe (one name is modelled)
    pipe_end,        \* Ends -> struct pipe_end
    server,          \* Servers -> the pipe_server fields beyond its pipe_end
    client,          \* Clients -> the pipe_client fields beyond its pipe_end
    ignore_reselect, \* the static flag of named_pipe.c
    aborted,         \* an assert() of named_pipe.c failed
    nbytes,          \* bytes written so far (labels the payload bytes 1, 2, ...)
    ret,             \* the last request: what it was and what it returned
    done,            \* asyncs completed by the last request, in order
    sock,            \* Ends -> unread bytes in the end's byte-mode socket
    owed,            \* history: Ends -> bytes queued for the peer when the end's
                     \* pending flush was issued and not consumed since
    relistened       \* history: the servers listening again after a connection ended

vars == <<pipe, pipe_end, server, client, ignore_reselect, aborted, nbytes, ret, done,
          sock, owed, relistened>>

(* -------------------------- small helpers ----------------------------- *)
Min(a, b) == IF a < b THEN a ELSE b

RemoveAt(q, i) == SubSeq(q, 1, i - 1) \o SubSeq(q, i + 1, Len(q))

RECURSIVE SumRemaining(_)
(* sum of in_size - read_pos over a message list *)
SumRemaining(q) ==
    IF q = <<>> THEN 0
    ELSE (Len(Head(q).data) - Head(q).read_pos) + SumRemaining(Tail(q))

RECURSIVE FlattenRemaining(_)
(* the unread bytes of a message list, in order *)
FlattenRemaining(q) ==
    IF q = <<>> THEN <<>>
    ELSE SubSeq(Head(q).data, Head(q).read_pos + 1, Len(Head(q).data))
         \o FlattenRemaining(Tail(q))

(* ------------------------------ objects ------------------------------- *)
(* struct pipe_end as init_pipe_end leaves it; alive = the object exists *)
init_pipe_end(pipe_flags, buffer_size) ==
    [alive |-> TRUE, fd |-> "none", flags |-> pipe_flags, connection |-> NULL,
     buffer_size |-> buffer_size, message_queue |-> <<>>, read_q |-> <<>>,
     wait_q |-> <<>>]

NoEnd == [init_pipe_end({}, 0) EXCEPT !.alive = FALSE]

NoServer == [state |-> "none", client |-> NULL, flush_poll |-> FALSE, ioctl_wait |-> <<>>]

NoClient == [server |-> NULL]

NoPipe == [exists |-> FALSE, flags |-> {}, sharing |-> {}, maxinstances |-> 0,
           insize |-> 0, outsize |-> 0, instances |-> 0, servers |-> <<>>,
           waiters |-> <<>>]

(* an async: the request it suspends and the fd user it was issued on *)
Async(kind, end, size) == [kind |-> kind, end |-> end, size |-> size]

(* a completion: the async, the status it was terminated with, and its iosb *)
Completion(a, status, iosb_status, data) ==
    [async |-> a, status |-> status, iosb |-> iosb_status, data |-> data]

NoRet == [op |-> "none", end |-> NULL, status |-> "SUCCESS", arg |-> 0, obj |-> NULL]

Ret(op, end, status, arg, obj) ==
    [op |-> op, end |-> end, status |-> status, arg |-> arg, obj |-> obj]

(* the heap the C functions work on *)
Heap == [pipe |-> pipe, pipe_end |-> pipe_end, server |-> server, client |-> client,
         ignore_reselect |-> ignore_reselect, aborted |-> aborted, done |-> <<>>,
         sock |-> sock, err |-> "SUCCESS"]

(* assert( cond ): a failed assertion aborts the process *)
c_assert(h, cond) == IF cond THEN h ELSE [h EXCEPT !.aborted = TRUE]

(* Returns if we handle I/O via server calls *)
use_server_io(h, e) == MSG_WRITE \in h.pipe_end[e].flags

(* ---------------------------- async layer ----------------------------- *)
NoAsync == Async("none", NULL, 0)

Message(data, a) ==
    [data |-> data, read_pos |-> 0, async |-> a, status |-> "PENDING"]

RECURSIVE async_terminate(_, _, _, _, _)
RECURSIVE reselect_read_queue(_, _)
RECURSIVE reselect_write_queue(_, _)

(* the fd_ops reselect_async callback of both pipe ends; queue is the kind of
   the async queue ("read" = read_q, "write" = write_q, anything else = an fd
   wait queue, which belongs to neither) *)
pipe_end_reselect_async_reentrant(h, e, queue) ==
    IF ~use_server_io(h, e) THEN h
    ELSE IF queue = "write" THEN reselect_write_queue(h, e)
    ELSE IF queue = "read" THEN reselect_read_queue(h, e)
    ELSE h

pipe_end_reselect_async(h, e, queue) ==
    IF h.ignore_reselect THEN h
    ELSE IF ~use_server_io(h, e) THEN h      \* default_fd_reselect_async: host polling
    ELSE IF queue = "write" THEN reselect_write_queue(h, e)
    ELSE IF queue = "read" THEN reselect_read_queue(h, e)
    ELSE h

(* async_terminate( async, status ): the async is completed (recorded in done)
   and the queue it belongs to is reselected through its fd *)
async_terminate(h, a, status, iosb_status, data) ==
    LET h1 == [h EXCEPT !.done = Append(@, Completion(a, status, iosb_status, data))]
    IN  IF a.end = NULL THEN h1           \* a waiter of the named pipe: no fd
        ELSE pipe_end_reselect_async(h1, a.end, a.kind)

RECURSIVE WakeAll(_, _, _)
WakeAll(h, q, status) ==
    IF q = <<>> THEN h
    ELSE WakeAll(async_terminate(h, Head(q), status, status, <<>>), Tail(q), status)

(* fd_async_wake_up( pipe_end->fd, ASYNC_TYPE_WAIT, status ): a connected
   message-mode server's data fd is its ioctl fd, so the asyncs are those of the
   ioctl fd; a NULL fd is dereferenced *)
fd_async_wake_up(h, e, status) ==
    LET fd == h.pipe_end[e].fd
    IN  IF fd = "none" THEN [h EXCEPT !.aborted = TRUE]
        ELSE IF fd = "ioctl"
        THEN WakeAll([h EXCEPT !.server[e].ioctl_wait = <<>>], h.server[e].ioctl_wait, status)
        ELSE WakeAll([h EXCEPT !.pipe_end[e].wait_q = <<>>], h.pipe_end[e].wait_q, status)

(* fd_async_wake_up( server->ioctl_fd, ASYNC_TYPE_WAIT, status ) *)
ioctl_fd_async_wake_up(h, s, status) ==
    WakeAll([h EXCEPT !.server[s].ioctl_wait = <<>>], h.server[s].ioctl_wait, status)

(* fd_queue_async( pipe_end->fd, async, ASYNC_TYPE_WAIT ): the async joins the
   wait asyncs of the data fd of pipe end e *)
fd_queue_async(h, e, a) ==
    LET fd == h.pipe_end[e].fd
    IN  IF fd = "none" THEN [h EXCEPT !.aborted = TRUE]
        ELSE IF fd = "ioctl" THEN [h EXCEPT !.server[e].ioctl_wait = Append(@, a)]
        ELSE [h EXCEPT !.pipe_end[e].wait_q = Append(@, a)]

(* queue_async( queue, async ): the async joins the tail of the queue *)
queue_async(q, a) == Append(q, a)

(* find_pending_async( queue ): the first async of the queue still pending;
   a terminated async has left the queue *)
find_pending_async(q) == Head(q)

(* async_wake_up( pipe_end->read_q, status ) *)
RECURSIVE read_q_wake_up(_, _, _)
read_q_wake_up(h, e, status) ==
    IF h.pipe_end[e].read_q = <<>> THEN h
    ELSE LET a == Head(h.pipe_end[e].read_q)
             h1 == [h EXCEPT !.pipe_end[e].read_q = Tail(@)]
         IN  read_q_wake_up(async_terminate(h1, a, status, status, <<>>), e, status)

(* --------------------------- message engine --------------------------- *)
wake_message_holding(h, e, i) ==
    LET m == h.pipe_end[e].message_queue[i]
        h1 == [h EXCEPT !.pipe_end[e].message_queue[i].status = "SUCCESS"]
    IN  IF m.async # NoAsync
        THEN async_terminate(h1, m.async,
                             IF Len(m.data) # 0 THEN "ALERTED" ELSE "SUCCESS", "SUCCESS", <<>>)
        ELSE h1

(* wake_message on message i of the queue of pipe end e *)
wake_message(h, e, i) ==
    LET m == h.pipe_end[e].message_queue[i]
        h1 == [h EXCEPT !.pipe_end[e].message_queue[i].async = NoAsync,
                        !.pipe_end[e].message_queue[i].status = "SUCCESS"]
    IN  IF m.async # NoAsync
        THEN async_terminate(h1, m.async,
                             IF Len(m.data) # 0 THEN "ALERTED" ELSE "SUCCESS", "SUCCESS", <<>>)
        ELSE h1

(* free_message on message i of the queue of pipe end e *)
free_message(h, e, i) ==
    [h EXCEPT !.pipe_end[e].message_queue = RemoveAt(@, i)]

read_out_size_head_only(end, size) ==
    LET head == Head(end.message_queue)
    IN  Min(size, Len(head.data) - head.read_pos)

(* the size and status message_queue_read settles on before it copies *)
read_out_size(end, size) ==
    LET q == end.message_queue
        head == Head(q)
    IN  IF MSG_READ \in end.flags
        THEN Min(size, Len(head.data) - head.read_pos)
        ELSE Min(size, SumRemaining(q))

read_iosb_status_success(end, size) == "SUCCESS"

read_iosb_status(end, size) ==
    LET head == Head(end.message_queue)
    IN  IF MSG_READ \in end.flags
        THEN IF head.read_pos + read_out_size(end, size) < Len(head.data)
             THEN "BUFFER_OVERFLOW" ELSE "SUCCESS"
        ELSE "SUCCESS"

(* the do ... while loop of message_queue_read: r = [h, buf] *)
RECURSIVE read_copy_loop(_, _, _)
read_copy_loop(r, e, out_size) ==
    LET m == Head(r.h.pipe_end[e].message_queue)
        write_pos == Len(r.buf)
        writing == Min(out_size - write_pos, Len(m.data) - m.read_pos)
        h1 == [r.h EXCEPT !.pipe_end[e].message_queue[1].read_pos = @ + writing]
        while(h2, buf) ==
            IF Len(buf) < out_size
            THEN read_copy_loop([h |-> h2, buf |-> buf], e, out_size)
            ELSE [h |-> h2, buf |-> buf]
    IN  while(IF m.read_pos + writing = Len(m.data)
              THEN free_message(wake_message(h1, e, 1), e, 1)
              ELSE h1,
              r.buf \o SubSeq(m.data, m.read_pos + 1, m.read_pos + writing))

(* message_queue_read( pipe_end, iosb ) for a read of `size` bytes:
   [h, status, data] with data the out_data of the read's iosb *)
message_queue_read(h, e, size) ==
    LET end == h.pipe_end[e]
        out_size == read_out_size(end, size)
        status == read_iosb_status(end, size)
        head == Head(end.message_queue)
    IN  IF head.read_pos = 0 /\ Len(head.data) = out_size      \* fast path
        THEN [h |-> free_message(wake_message(h, e, 1), e, 1),
              status |-> status, data |-> head.data]
        ELSE LET copied(r) == [h |-> r.h, status |-> status, data |-> r.buf]
             IN  copied(read_copy_loop([h |-> h, buf |-> <<>>], e, out_size))

RECURSIVE read_queue_loop_alerted(_, _)
read_queue_loop_alerted(r, e) ==
    LET end == r.h.pipe_end[e]
    IN  IF end.message_queue # <<>> /\ end.read_q # <<>>
        THEN LET a == find_pending_async(end.read_q)
                 terminate(m) ==
                     async_terminate([m.h EXCEPT !.pipe_end[e].read_q = Tail(@)], a,
                                     "ALERTED", m.status, m.data)
             IN  read_queue_loop_alerted([h |-> terminate(message_queue_read(r.h, e, a.size)),
                                          read_done |-> TRUE], e)
        ELSE r

RECURSIVE read_queue_loop_newest(_, _)
read_queue_loop_newest(r, e) ==
    LET end == r.h.pipe_end[e]
        n == Len(end.read_q)
    IN  IF end.message_queue # <<>> /\ end.read_q # <<>>
        THEN LET a == end.read_q[n]
                 terminate(m) ==
                     async_terminate([m.h EXCEPT !.pipe_end[e].read_q = SubSeq(@, 1, n - 1)], a,
                                     IF Len(m.data) # 0 THEN "ALERTED" ELSE m.status,
                                     m.status, m.data)
             IN  read_queue_loop_newest([h |-> terminate(message_queue_read(r.h, e, a.size)),
                                         read_done |-> TRUE], e)
        ELSE r

(* the while loop of reselect_read_queue: r = [h, read_done] *)
RECURSIVE read_queue_loop(_, _)
read_queue_loop(r, e) ==
    LET end == r.h.pipe_end[e]
    IN  IF end.message_queue # <<>> /\ end.read_q # <<>>
        THEN LET a == find_pending_async(end.read_q)
                 terminate(m) ==
                     async_terminate([m.h EXCEPT !.pipe_end[e].read_q = Tail(@)], a,
                                     IF Len(m.data) # 0 THEN "ALERTED" ELSE m.status,
                                     m.status, m.data)
             IN  read_queue_loop([h |-> terminate(message_queue_read(r.h, e, a.size)),
                                  read_done |-> TRUE], e)
        ELSE r

reselect_read_queue_silent(h, e) ==
    LET after_loop(h1, read_done) ==
            LET peer == h1.pipe_end[e].connection
            IN  IF peer = NULL THEN h1
                ELSE IF h1.pipe_end[e].message_queue = <<>> THEN h1
                ELSE IF read_done THEN reselect_write_queue(h1, peer)
                ELSE h1
        loop_end(r) == after_loop([r.h EXCEPT !.ignore_reselect = FALSE], r.read_done)
    IN  loop_end(read_queue_loop([h |-> [h EXCEPT !.ignore_reselect = TRUE],
                                  read_done |-> FALSE], e))

reselect_read_queue(h, e) ==
    LET after_loop(h1, read_done) ==
            LET peer == h1.pipe_end[e].connection
            IN  IF peer = NULL THEN h1
                ELSE IF h1.pipe_end[e].message_queue = <<>>
                THEN fd_async_wake_up(h1, peer, "SUCCESS")
                ELSE IF read_done THEN reselect_write_queue(h1, peer)
                ELSE h1
        loop_end(r) == after_loop([r.h EXCEPT !.ignore_reselect = FALSE], r.read_done)
    IN  loop_end(read_queue_loop([h |-> [h EXCEPT !.ignore_reselect = TRUE],
                                  read_done |-> FALSE], e))

(* the LIST_FOR_EACH_ENTRY_SAFE loop of reselect_write_queue over the reader's
   messages, at message i with `avail` bytes tallied so far *)
RECURSIVE write_queue_walk_keeping(_, _, _, _)
RECURSIVE write_queue_walk(_, _, _, _)
write_queue_walk_keeping(h, reader, i, avail) ==
    LET q == h.pipe_end[reader].message_queue
    IN  IF i > Len(q) THEN h
        ELSE LET m == q[i]
                 sum == avail + (Len(m.data) - m.read_pos)
             IN  IF m.async # NoAsync /\ m.status # "PENDING"
                 THEN write_queue_walk_keeping(
                          [h EXCEPT !.pipe_end[reader].message_queue[i].async = NoAsync],
                          reader, i + 1, sum)
                 ELSE IF m.status = "PENDING"
                         /\ (sum <= h.pipe_end[reader].buffer_size \/ Len(m.data) = 0)
                 THEN write_queue_walk_keeping(wake_message(h, reader, i), reader, i + 1, sum)
                 ELSE write_queue_walk_keeping(h, reader, i + 1, sum)

RECURSIVE write_queue_walk_nonempty(_, _, _, _)
write_queue_walk_nonempty(h, reader, i, avail) ==
    LET q == h.pipe_end[reader].message_queue
    IN  IF i > Len(q) THEN h
        ELSE LET m == q[i]
                 sum == avail + (Len(m.data) - m.read_pos)
             IN  IF m.async # NoAsync /\ m.status # "PENDING"
                 THEN write_queue_walk_nonempty(free_message(h, reader, i), reader, i, avail)
                 ELSE IF m.status = "PENDING" /\ sum <= h.pipe_end[reader].buffer_size
                 THEN write_queue_walk_nonempty(wake_message(h, reader, i), reader, i + 1, sum)
                 ELSE write_queue_walk_nonempty(h, reader, i + 1, sum)

write_queue_walk(h, reader, i, avail) ==
    LET q == h.pipe_end[reader].message_queue
    IN  IF i > Len(q) THEN h
        ELSE LET m == q[i]
                 sum == avail + (Len(m.data) - m.read_pos)
             IN  IF m.async # NoAsync /\ m.status # "PENDING"
                 THEN write_queue_walk(free_message(h, reader, i), reader, i, avail)
                 ELSE IF m.status = "PENDING"
                         /\ (sum <= h.pipe_end[reader].buffer_size \/ Len(m.data) = 0)
                 THEN write_queue_walk(wake_message(h, reader, i), reader, i + 1, sum)
                 ELSE write_queue_walk(h, reader, i + 1, sum)

reselect_write_queue(h, e) ==
    LET reader == h.pipe_end[e].connection
    IN  IF reader = NULL THEN h
        ELSE LET h1 == write_queue_walk([h EXCEPT !.ignore_reselect = TRUE], reader, 1, 0)
             IN  reselect_read_queue([h1 EXCEPT !.ignore_reselect = FALSE], reader)

(* set_error( status ) *)
set_error(h, status) == [h EXCEPT !.err = status]

(* ------------------------ server state machine ------------------------ *)
set_server_state(h, s, state) ==
    LET h1 == [h EXCEPT !.server[s].state = state]
    IN  IF state \in {"connected_server", "wait_disconnect"}
        THEN c_assert(h1, h.pipe_end[s].fd # "none")
        ELSE c_assert(h1, h.pipe_end[s].fd = "none")

notify_empty_armed(h, s) ==
    IF ~h.server[s].flush_poll THEN h
    ELSE LET h1 == c_assert(h, h.server[s].state = "connected_server")
         IN  fd_async_wake_up(h1, s, "SUCCESS")

notify_empty(h, s) ==
    IF ~h.server[s].flush_poll THEN h
    ELSE LET h1 == c_assert(h, h.server[s].state = "connected_server")
         IN  fd_async_wake_up([h1 EXCEPT !.server[s].flush_poll = FALSE], s, "SUCCESS")

RECURSIVE disconnect_walk_keeping(_, _, _, _)
disconnect_walk_keeping(h, e, i, status) ==
    LET q == h.pipe_end[e].message_queue
    IN  IF i > Len(q) THEN h
        ELSE LET a == q[i].async
                 drop == a # NoAsync
                 h1 == IF drop THEN free_message(h, e, i) ELSE h
                 next == IF drop THEN i ELSE i + 1
             IN  IF a = NoAsync THEN disconnect_walk_keeping(h1, e, next, status)
                 ELSE disconnect_walk_keeping(async_terminate(h1, a, status, status, <<>>),
                                              e, next, status)

RECURSIVE disconnect_walk_dropping(_, _, _, _)
disconnect_walk_dropping(h, e, i, status) ==
    LET q == h.pipe_end[e].message_queue
    IN  IF i > Len(q) THEN h
        ELSE LET a == q[i].async
                 h1 == free_message(h, e, i)
             IN  IF a = NoAsync THEN disconnect_walk_dropping(h1, e, i, status)
                 ELSE disconnect_walk_dropping(async_terminate(h1, a, status, status, <<>>),
                                               e, i, status)

RECURSIVE disconnect_walk_twice(_, _, _, _)
disconnect_walk_twice(h, e, i, status) ==
    LET q == h.pipe_end[e].message_queue
    IN  IF i > Len(q) THEN h
        ELSE LET a == q[i].async
                 drop == a # NoAsync \/ status = "PIPE_DISCONNECTED"
                 h1 == IF drop THEN free_message(h, e, i) ELSE h
                 next == IF drop THEN i ELSE i + 1
                 again(h2) == async_terminate(h2, a, status, status, <<>>)
             IN  IF a = NoAsync THEN disconnect_walk_twice(h1, e, next, status)
                 ELSE disconnect_walk_twice(again(async_terminate(h1, a, status, status, <<>>)),
                                            e, next, status)

(* the LIST_FOR_EACH_ENTRY_SAFE loop of pipe_end_disconnect, at message i *)
RECURSIVE disconnect_walk(_, _, _, _)
disconnect_walk(h, e, i, status) ==
    LET q == h.pipe_end[e].message_queue
    IN  IF i > Len(q) THEN h
        ELSE LET a == q[i].async
                 drop == a # NoAsync \/ status = "PIPE_DISCONNECTED"
                 h1 == IF drop THEN free_message(h, e, i) ELSE h
                 next == IF drop THEN i ELSE i + 1
             IN  IF a = NoAsync THEN disconnect_walk(h1, e, next, status)
                 ELSE disconnect_walk(async_terminate(h1, a, status, status, <<>>),
                                      e, next, status)

(* what pipe_end_disconnect does to one end once its connection is cleared *)
disconnect_end(h, e, status) ==
    IF use_server_io(h, e)
    THEN LET h1 == IF h.pipe_end[e].fd # "none" THEN fd_async_wake_up(h, e, status) ELSE h
             h2 == read_q_wake_up(h1, e, status)
         IN  disconnect_walk(h2, e, 1, status)
    ELSE h

(* pipe_end_disconnect( pipe_end, status ); the recursive call finds the
   peer's connection already cleared and stops there *)
pipe_end_disconnect_one_sided(h, e, status) ==
    disconnect_end([h EXCEPT !.pipe_end[e].connection = NULL], e, status)

pipe_end_disconnect(h, e, status) ==
    LET connection == h.pipe_end[e].connection
        peer_end(h1) ==
            IF connection = NULL THEN h1
            ELSE disconnect_end([h1 EXCEPT !.pipe_end[connection].connection = NULL],
                                connection, status)
    IN  peer_end(disconnect_end([h EXCEPT !.pipe_end[e].connection = NULL], e, status))

do_disconnect(h, s) ==
    LET c == h.server[s].client
        h1 == IF c = NULL THEN h
              ELSE LET a1 == c_assert(h, h.client[c].server = s)
                       a2 == c_assert(a1, h.pipe_end[c].fd # "none")
                   IN  IF ~use_server_io(h, s)
                       THEN [a2 EXCEPT !.pipe_end[c].fd = "none", !.pipe_end[c].wait_q = <<>>]
                       ELSE a2
        h2 == c_assert(h1, h.pipe_end[s].fd # "none")
    IN  [h2 EXCEPT !.pipe_end[s].fd = "none", !.pipe_end[s].wait_q = <<>>]

(* pipe_end_destroy: every message left must have no writer async *)
pipe_end_destroy(h, e) ==
    LET q == h.pipe_end[e].message_queue
        h1 == c_assert(h, \A i \in 1..Len(q) : q[i].async = NoAsync)
    IN  [h1 EXCEPT !.pipe_end[e].message_queue = <<>>, !.pipe_end[e].read_q = <<>>]

(* named_pipe_destroy, run when the last reference to the pipe goes *)
named_pipe_destroy(h) ==
    LET h1 == c_assert(h, h.pipe.servers = <<>>)
        h2 == c_assert(h1, h.pipe.instances = 0)
    IN  [h2 EXCEPT !.pipe = NoPipe]

pipe_server_destroy_dangling(h, s) ==
    LET release_fd(h1) ==
            IF h1.pipe_end[s].fd # "none" THEN do_disconnect(notify_empty(h1, s), s) ELSE h1
        unlink_server(h4) ==
            [c_assert(h4, h4.pipe.instances # 0)
                EXCEPT !.pipe.instances = @ - 1,
                       !.pipe.servers = SelectSeq(@, LAMBDA x : x # s),
                       !.server[s] = NoServer,
                       !.pipe_end[s] = NoEnd]
        release_pipe(h6) == IF h6.pipe.servers = <<>> THEN named_pipe_destroy(h6) ELSE h6
    IN  release_pipe(unlink_server(pipe_end_destroy(
            release_fd(pipe_end_disconnect(h, s, "PIPE_BROKEN")), s)))

pipe_server_destroy(h, s) ==
    LET release_fd(h1) ==
            IF h1.pipe_end[s].fd # "none" THEN do_disconnect(notify_empty(h1, s), s) ELSE h1
        unlink_client(h3) ==
            LET c == h3.server[s].client
            IN  IF c # NULL
                THEN [h3 EXCEPT !.client[c].server = NULL, !.server[s].client = NULL]
                ELSE h3
        unlink_server(h4) ==
            [c_assert(h4, h4.pipe.instances # 0)
                EXCEPT !.pipe.instances = @ - 1,
                       !.pipe.servers = SelectSeq(@, LAMBDA x : x # s),
                       !.server[s] = NoServer,
                       !.pipe_end[s] = NoEnd]
        release_pipe(h6) == IF h6.pipe.servers = <<>> THEN named_pipe_destroy(h6) ELSE h6
    IN  release_pipe(unlink_server(unlink_client(pipe_end_destroy(
            release_fd(pipe_end_disconnect(h, s, "PIPE_BROKEN")), s))))

pipe_client_destroy_released(h, c) ==
    LET s == h.client[c].server
        leave_server(h1) ==
            IF s = NULL THEN h1
            ELSE [set_server_state(do_disconnect(notify_empty(h1, s), s), s, "wait_connect")
                     EXCEPT !.server[s].client = NULL, !.client[c].server = NULL]
    IN  [pipe_end_destroy(leave_server(pipe_end_disconnect(h, c, "PIPE_DISCONNECTED")), c)
            EXCEPT !.pipe_end[c] = NoEnd, !.client[c] = NoClient]

pipe_client_destroy_stale(h, c) ==
    LET s == IF h.client[c].server # NULL THEN h.client[c].server
             ELSE IF h.pipe.servers # <<>> THEN Head(h.pipe.servers)
             ELSE NULL
        switch_state(n) ==
            IF n.server[s].state = "connected_server"
            THEN set_server_state(n, s, "wait_disconnect")
            ELSE [n EXCEPT !.aborted = TRUE]                      \* assert( 0 )
        unlink(t) ==
            [c_assert(t, t.server[s].client # NULL)
                EXCEPT !.server[s].client = NULL, !.client[c].server = NULL]
        leave_server(h1) ==
            IF s = NULL THEN h1 ELSE unlink(switch_state(notify_empty(h1, s)))
    IN  [pipe_end_destroy(leave_server(pipe_end_disconnect(h, c, "PIPE_BROKEN")), c)
            EXCEPT !.pipe_end[c] = NoEnd, !.client[c] = NoClient]

pipe_client_destroy(h, c) ==
    LET s == h.client[c].server
        switch_state(n) ==
            IF n.server[s].state = "connected_server"
            THEN set_server_state(n, s, "wait_disconnect")
            ELSE [n EXCEPT !.aborted = TRUE]                      \* assert( 0 )
        unlink(t) ==
            [c_assert(t, t.server[s].client # NULL)
                EXCEPT !.server[s].client = NULL, !.client[c].server = NULL]
        leave_server(h1) ==
            IF s = NULL THEN h1 ELSE unlink(switch_state(notify_empty(h1, s)))
    IN  [pipe_end_destroy(leave_server(pipe_end_disconnect(h, c, "PIPE_BROKEN")), c)
            EXCEPT !.pipe_end[c] = NoEnd, !.client[c] = NoClient]

(* pipe_server_ioctl, case FSCTL_PIPE_LISTEN *)
pipe_server_listen_unqueued(h, s) ==
    LET state == h.server[s].state
    IN  IF state \in {"idle_server", "wait_connect"}
        THEN LET h2 == set_server_state(h, s, "wait_open")
                 h3 == WakeAll([h2 EXCEPT !.pipe.waiters = <<>>], h2.pipe.waiters, "SUCCESS")
             IN  set_error(h3, "PENDING")
        ELSE IF state = "connected_server" THEN set_error(h, "PIPE_CONNECTED")
        ELSE IF state = "wait_disconnect" THEN set_error(h, "NO_DATA_DETECTED")
        ELSE set_error(h, "INVALID_HANDLE")

pipe_server_listen_quiet(h, s) ==
    LET state == h.server[s].state
    IN  IF state \in {"idle_server", "wait_connect"}
        THEN LET h1 == [h EXCEPT !.server[s].ioctl_wait = Append(@, Async("listen", s, 0))]
             IN  set_error(set_server_state(h1, s, "wait_open"), "PENDING")
        ELSE IF state = "connected_server" THEN set_error(h, "PIPE_CONNECTED")
        ELSE IF state = "wait_disconnect" THEN set_error(h, "NO_DATA_DETECTED")
        ELSE set_error(h, "INVALID_HANDLE")

pipe_server_listen_again(h, s) ==
    LET state == h.server[s].state
    IN  IF state \in {"idle_server", "wait_connect", "wait_disconnect"}
        THEN LET h1 == [h EXCEPT !.server[s].ioctl_wait = Append(@, Async("listen", s, 0)),
                                 !.server[s].state = "wait_open"]
                 h3 == WakeAll([h1 EXCEPT !.pipe.waiters = <<>>], h1.pipe.waiters, "SUCCESS")
             IN  set_error(h3, "PENDING")
        ELSE IF state = "connected_server" THEN set_error(h, "PIPE_CONNECTED")
        ELSE set_error(h, "INVALID_HANDLE")

pipe_server_listen(h, s) ==
    LET state == h.server[s].state
    IN  IF state \in {"idle_server", "wait_connect"}
        THEN LET h1 == [h EXCEPT !.server[s].ioctl_wait = Append(@, Async("listen", s, 0))]
                 h2 == set_server_state(h1, s, "wait_open")
                 h3 == WakeAll([h2 EXCEPT !.pipe.waiters = <<>>], h2.pipe.waiters, "SUCCESS")
             IN  set_error(h3, "PENDING")
        ELSE IF state = "connected_server" THEN set_error(h, "PIPE_CONNECTED")
        ELSE IF state = "wait_disconnect" THEN set_error(h, "NO_DATA_DETECTED")
        ELSE set_error(h, "INVALID_HANDLE")

(* pipe_server_ioctl, case FSCTL_PIPE_DISCONNECT *)
pipe_server_disconnect_listening(h, s) ==
    LET state == h.server[s].state
        c == h.server[s].client
    IN  IF state = "connected_server" /\ c = NULL
        THEN [h EXCEPT !.aborted = TRUE]
        ELSE IF state = "connected_server"
        THEN LET a2 == c_assert(h, h.pipe_end[c].fd # "none")
                 h1 == notify_empty(a2, s)
                 h2 == pipe_end_disconnect(h1, s, "PIPE_DISCONNECTED")
                 h3 == do_disconnect(h2, s)
                 h4 == [h3 EXCEPT !.client[c].server = NULL, !.server[s].client = NULL]
             IN  set_server_state(h4, s, "wait_connect")
        ELSE IF state \in {"wait_disconnect", "wait_open"}
        THEN LET h2 == pipe_end_disconnect(h, s, "PIPE_DISCONNECTED")
                 h3 == do_disconnect(h2, s)
             IN  [h3 EXCEPT !.server[s].state = "wait_connect"]
        ELSE IF state = "idle_server" THEN set_error(h, "PIPE_LISTENING")
        ELSE set_error(h, "PIPE_DISCONNECTED")

pipe_server_disconnect(h, s) ==
    LET state == h.server[s].state
        c == h.server[s].client
    IN  IF state = "connected_server" /\ c = NULL
        THEN [h EXCEPT !.aborted = TRUE]                \* assert( server->client )
        ELSE IF state = "connected_server"
        THEN LET a2 == c_assert(h, h.pipe_end[c].fd # "none")
                 h1 == notify_empty(a2, s)
                 h2 == pipe_end_disconnect(h1, s, "PIPE_DISCONNECTED")
                 h3 == do_disconnect(h2, s)
                 h4 == [h3 EXCEPT !.client[c].server = NULL, !.server[s].client = NULL]
             IN  set_server_state(h4, s, "wait_connect")
        ELSE IF state = "wait_disconnect"
        THEN LET a1 == c_assert(h, c = NULL)
                 h2 == pipe_end_disconnect(a1, s, "PIPE_DISCONNECTED")
                 h3 == do_disconnect(h2, s)
             IN  set_server_state(h3, s, "wait_connect")
        ELSE IF state \in {"idle_server", "wait_open"} THEN set_error(h, "PIPE_LISTENING")
        ELSE set_error(h, "PIPE_DISCONNECTED")

(* --------------------------- object creation -------------------------- *)
(* create_pipe_server: s is the object alloc_object returns *)
create_pipe_server(h, s, pipe_flags) ==
    LET h1 == [h EXCEPT !.server[s] = [NoServer EXCEPT !.state = "idle_server"],
                        !.pipe_end[s] = init_pipe_end(pipe_flags, h.pipe.insize),
                        !.pipe.servers = <<s>> \o @]
    IN  set_server_state(h1, s, "idle_server")

create_named_pipe_sharing_first(h, s, req) ==
    IF req.sharing = {} \/ ~(req.sharing \subseteq {SHARE_READ, SHARE_WRITE})
       \/ (MSG_WRITE \notin req.flags /\ MSG_READ \in req.flags)
    THEN set_error(h, "INVALID_PARAMETER")
    ELSE IF h.pipe.exists /\ h.pipe.sharing # req.sharing
    THEN set_error(h, "ACCESS_DENIED")
    ELSE IF h.pipe.exists /\ h.pipe.maxinstances <= h.pipe.instances
    THEN set_error(h, "INSTANCE_NOT_AVAILABLE")
    ELSE LET h1 == IF h.pipe.exists THEN h
                   ELSE [h EXCEPT !.pipe =
                            [NoPipe EXCEPT !.exists = TRUE,
                                           !.insize = req.insize,
                                           !.outsize = req.outsize,
                                           !.maxinstances = req.maxinstances,
                                           !.flags = req.flags \cap {MSG_WRITE},
                                           !.sharing = req.sharing]]
             h2 == create_pipe_server(h1, s, req.flags)
         IN  [h2 EXCEPT !.pipe.instances = @ + 1]

(* DECL_HANDLER(create_named_pipe) *)
create_named_pipe(h, s, req) ==
    IF req.sharing = {} \/ ~(req.sharing \subseteq {SHARE_READ, SHARE_WRITE})
       \/ (MSG_WRITE \notin req.flags /\ MSG_READ \in req.flags)
    THEN set_error(h, "INVALID_PARAMETER")
    ELSE IF h.pipe.exists /\ h.pipe.maxinstances <= h.pipe.instances
    THEN set_error(h, "INSTANCE_NOT_AVAILABLE")
    ELSE IF h.pipe.exists /\ h.pipe.sharing # req.sharing
    THEN set_error(h, "ACCESS_DENIED")
    ELSE LET h1 == IF h.pipe.exists THEN h
                   ELSE [h EXCEPT !.pipe =
                            [NoPipe EXCEPT !.exists = TRUE,
                                           !.insize = req.insize,
                                           !.outsize = req.outsize,
                                           !.maxinstances = req.maxinstances,
                                           !.flags = req.flags \cap {MSG_WRITE},
                                           !.sharing = req.sharing]]
             h2 == create_pipe_server(h1, s, req.flags)
         IN  [h2 EXCEPT !.pipe.instances = @ + 1]

find_available_server_idle_first(h) ==
    LET l == h.pipe.servers
        open == {i \in 1..Len(l) : h.server[l[i]].state = "wait_open"}
        idle == {i \in 1..Len(l) : h.server[l[i]].state = "idle_server"}
        first(S) == CHOOSE i \in S : \A j \in S : i <= j
    IN  IF idle # {} THEN l[first(idle)]
        ELSE IF open # {} THEN l[first(open)]
        ELSE NULL

(* find_available_server: the first listening server of the list, else the
   first idle one, else NULL *)
find_available_server(h) ==
    LET l == h.pipe.servers
        open == {i \in 1..Len(l) : h.server[l[i]].state = "wait_open"}
        idle == {i \in 1..Len(l) : h.server[l[i]].state = "idle_server"}
        first(S) == CHOOSE i \in S : \A j \in S : i <= j
    IN  IF open # {} THEN l[first(open)]
        ELSE IF idle # {} THEN l[first(idle)]
        ELSE NULL

pair_pipe_ends_unwoken(h, s, c) ==
    LET h2 == set_server_state(h, s, "connected_server")
    IN  [h2 EXCEPT !.server[s].client = c,
                   !.client[c].server = s,
                   !.pipe_end[s].connection = c,
                   !.pipe_end[c].connection = s]

(* the pairing step of named_pipe_open_file, once both ends have their fd *)
pair_pipe_ends(h, s, c) ==
    LET h1 == IF h.server[s].state = "wait_open"
              THEN ioctl_fd_async_wake_up(h, s, "SUCCESS") ELSE h
        h2 == set_server_state(h1, s, "connected_server")
    IN  [h2 EXCEPT !.server[s].client = c,
                   !.client[c].server = s,
                   !.pipe_end[s].connection = c,
                   !.pipe_end[c].connection = s]

(* named_pipe_open_file: c is the object create_pipe_client allocates *)
named_pipe_open_file_access_first(h, c, access) ==
    LET s == find_available_server(h)
    IN  IF (GENERIC_READ \in access /\ SHARE_READ \notin h.pipe.sharing)
           \/ (GENERIC_WRITE \in access /\ SHARE_WRITE \notin h.pipe.sharing)
        THEN set_error(h, "ACCESS_DENIED")
        ELSE IF s = NULL THEN set_error(h, "PIPE_NOT_AVAILABLE")
        ELSE LET h1 == [h EXCEPT !.client[c] = NoClient,
                                 !.pipe_end[c] = init_pipe_end(h.pipe.flags, h.pipe.outsize)]
             IN  IF use_server_io(h1, s)
                 THEN pair_pipe_ends([h1 EXCEPT !.pipe_end[c].fd = "pseudo",
                                                !.pipe_end[s].fd = "ioctl"], s, c)
                 ELSE pair_pipe_ends([h1 EXCEPT !.pipe_end[c].fd = "sock",
                                                !.pipe_end[s].fd = "sock",
                                                !.sock[c] = 0,
                                                !.sock[s] = 0], s, c)

named_pipe_open_file(h, c, access) ==
    LET s == find_available_server(h)
    IN  IF s = NULL THEN set_error(h, "PIPE_NOT_AVAILABLE")
        ELSE IF (GENERIC_READ \in access /\ SHARE_READ \notin h.pipe.sharing)
                \/ (GENERIC_WRITE \in access /\ SHARE_WRITE \notin h.pipe.sharing)
        THEN set_error(h, "ACCESS_DENIED")
        ELSE LET h1 == [h EXCEPT !.client[c] = NoClient,
                                 !.pipe_end[c] = init_pipe_end(h.pipe.flags, h.pipe.outsize)]
             IN  IF use_server_io(h1, s)
                 THEN pair_pipe_ends([h1 EXCEPT !.pipe_end[c].fd = "pseudo",
                                                !.pipe_end[s].fd = "ioctl"], s, c)
                 ELSE LET h2 == c_assert(h1, h1.pipe_end[s].fd = "none")
                      IN  pair_pipe_ends([h2 EXCEPT !.pipe_end[c].fd = "sock",
                                                    !.pipe_end[s].fd = "sock",
                                                    !.sock[c] = 0,
                                                    !.sock[s] = 0], s, c)

(* DECL_HANDLER(set_named_pipe_info) on pipe end e; a client that has lost
   its server is left alone *)
set_named_pipe_info(h, e, flags) ==
    IF e \in Clients /\ h.client[e].server = NULL THEN h
    ELSE IF ~(flags \subseteq {MSG_READ, NONBLOCKING})
            \/ (MSG_READ \in flags /\ MSG_WRITE \notin h.pipe.flags)
    THEN set_error(h, "INVALID_PARAMETER")
    ELSE [h EXCEPT !.pipe_end[e].flags = h.pipe.flags \cup flags]

(* open_named_object of the object manager: a lookup that creates nothing and
   fails, with the error set, when the device has no pipe of that name *)
open_named_object(h) ==
    IF h.pipe.exists THEN h ELSE set_error(h, "OBJECT_NAME_NOT_FOUND")

named_pipe_device_ioctl_queueing(h) ==
    IF ~h.pipe.exists THEN open_named_object(h)
    ELSE set_error([h EXCEPT !.pipe.waiters = queue_async(@, Async("wait", NULL, 0))], "PENDING")

(* named_pipe_device_ioctl, case FSCTL_PIPE_WAIT, for the name of the pipe;
   open_named_object finds no pipe of that name, sets the error and the
   handler returns *)
named_pipe_device_ioctl(h) ==
    IF ~h.pipe.exists THEN open_named_object(h)
    ELSE IF find_available_server(h) = NULL
    THEN set_error([h EXCEPT !.pipe.waiters = queue_async(@, Async("wait", NULL, 0))], "PENDING")
    ELSE h

(* ------------------------ failing allocations ------------------------ *)

(* the allocations of create_named_pipe that can fail once the request has
   passed its checks: alloc_object in create_pipe_server, and alloc_pseudo_fd
   for the ioctl fd after the server is linked into the list of the pipe *)
CreateFailures == {"alloc_object", "alloc_pseudo_fd"}

(* create_named_pipe for a request that passes its checks and meets the
   failure fail in create_pipe_server: the server is NULL, nothing is counted,
   and the reference to the pipe is released *)
create_named_pipe_failing(h, s, req, fail) ==
    LET h1 == IF h.pipe.exists THEN h
              ELSE [h EXCEPT !.pipe =
                       [NoPipe EXCEPT !.exists = TRUE,
                                      !.insize = req.insize,
                                      !.outsize = req.outsize,
                                      !.maxinstances = req.maxinstances,
                                      !.flags = req.flags \cap {MSG_WRITE},
                                      !.sharing = req.sharing]]
        release_pipe(h3) == IF h3.pipe.servers = <<>> THEN named_pipe_destroy(h3) ELSE h3
        \* release_object( server ) of the linked server runs pipe_server_destroy
        release_server(h2) == pipe_server_destroy(h2, s)
    IN  IF fail = "alloc_object" THEN set_error(release_pipe(h1), "NO_MEMORY")
        ELSE set_error(release_server(
                 [h1 EXCEPT !.server[s] = NoServer,
                            !.pipe_end[s] = init_pipe_end(req.flags, h1.pipe.insize),
                            !.pipe.servers = <<s>> \o @]), "NO_MEMORY")

(* the allocations of named_pipe_open_file that can fail once a server is
   found and the access granted: create_pipe_client, alloc_pseudo_fd
   (message mode), socketpair, and create_anonymous_fd for the client, for the
   server or for both (byte mode) *)
OpenFailures(h) ==
    IF use_server_io(h, find_available_server(h))
    THEN {"create_pipe_client", "alloc_pseudo_fd"}
    ELSE {"create_pipe_client", "socketpair", "client_fd", "server_fd", "both_fd"}

(* named_pipe_open_file for an open that finds server s, is granted the access
   and meets the failure fail: the client, if it was created, is released,
   which runs pipe_client_destroy; a server fd that create_anonymous_fd did
   return stays in server->pipe_end.fd *)
named_pipe_open_file_failing(h, c, fail) ==
    LET s == find_available_server(h)
        h1 == [h EXCEPT !.client[c] = NoClient,
                        !.pipe_end[c] = init_pipe_end(h.pipe.flags, h.pipe.outsize)]
        release_client(h2) == pipe_client_destroy(h2, c)
    IN  IF fail = "create_pipe_client" THEN set_error(h, "NO_MEMORY")
        ELSE IF fail \in {"alloc_pseudo_fd", "socketpair", "both_fd"}
        THEN set_error(release_client(h1), "NO_MEMORY")
        ELSE IF fail = "server_fd"
        THEN set_error(release_client([c_assert(h1, h1.pipe_end[s].fd = "none")
                                          EXCEPT !.pipe_end[c].fd = "sock"]), "NO_MEMORY")
        ELSE set_error(release_client([c_assert(h1, h1.pipe_end[s].fd = "none")
                                          EXCEPT !.pipe_end[s].fd = "sock",
                                                 !.sock[s] = 0]), "NO_MEMORY")

(* ------------------------------- cancel ------------------------------- *)

(* the async layer cancels the pending write async of message i, which pipe
   end e queued at its reader: the iosb of the async, which the message
   shares, takes the status, and the async is terminated with it *)
cancel_async(h, e, i) ==
    LET reader == h.pipe_end[e].connection
        cancelled(h1) ==
            async_terminate(h1, h.pipe_end[reader].message_queue[i].async,
                            "CANCELLED", "CANCELLED", <<>>)
    IN  cancelled([h EXCEPT !.pipe_end[reader].message_queue[i].status = "CANCELLED"])

(* -------------------------------- peek -------------------------------- *)

(* the FILE_PIPE_PEEK_BUFFER of a request that failed before it was filled *)
NoPeek ==
    [NamedPipeState |-> 0, ReadDataAvailable |-> 0, NumberOfMessages |-> 0,
     MessageLength |-> 0, Data |-> <<>>]

(* the loop of pipe_end_peek over the message queue, adding to avail *)
RECURSIVE peek_avail(_, _)
peek_avail(q, avail) ==
    IF q = <<>> THEN avail
    ELSE peek_avail(Tail(q), avail + (Len(Head(q).data) - Head(q).read_pos))

pipe_end_peek_whole(h, e, fits, room) ==
    IF ~use_server_io(h, e) THEN [h |-> set_error(h, "NOT_SUPPORTED"), reply |-> NoPeek]
    ELSE IF ~fits THEN [h |-> set_error(h, "INFO_LENGTH_MISMATCH"), reply |-> NoPeek]
    ELSE LET q == h.pipe_end[e].message_queue
             avail == peek_avail(q, 0)
             message_length == IF avail # 0 THEN Len(Head(q).data) ELSE 0
             reply_size == IF avail # 0 THEN Min(room, message_length) ELSE 0
         IN  [h |-> h,
              reply |-> [NamedPipeState |-> 0, ReadDataAvailable |-> avail,
                         NumberOfMessages |-> 0, MessageLength |-> message_length,
                         Data |-> IF reply_size = 0 THEN <<>>
                                  ELSE SubSeq(Head(q).data, 1, reply_size)]]

(* pipe_end_peek: [h, reply]; fits says that the reply buffer of the request
   holds the fixed part of FILE_PIPE_PEEK_BUFFER, room is what it holds beyond *)
pipe_end_peek(h, e, fits, room) ==
    IF ~use_server_io(h, e) THEN [h |-> set_error(h, "NOT_SUPPORTED"), reply |-> NoPeek]
    ELSE IF ~fits THEN [h |-> set_error(h, "INFO_LENGTH_MISMATCH"), reply |-> NoPeek]
    ELSE LET q == h.pipe_end[e].message_queue
             avail == peek_avail(q, 0)
             message_length == IF avail # 0 THEN Len(Head(q).data) - Head(q).read_pos ELSE 0
             reply_size == IF avail # 0 THEN Min(room, message_length) ELSE 0
         IN  [h |-> h,
              reply |-> [NamedPipeState |-> 0, ReadDataAvailable |-> avail,
                         NumberOfMessages |-> 0, MessageLength |-> message_length,
                         Data |-> IF reply_size = 0 THEN <<>>
                                  ELSE SubSeq(Head(q).data, Head(q).read_pos + 1,
                                              Head(q).read_pos + reply_size)]]

(* ------------------------------- flush -------------------------------- *)
(* pipe_data_remaining: does the client still hold data of the server *)
pipe_data_remaining(h, s) ==
    LET c == h.server[s].client
    IN  IF c = NULL THEN FALSE                       \* the assert fails first
        ELSE IF use_server_io(h, s) THEN h.pipe_end[c].message_queue # <<>>
        ELSE h.sock[c] > 0

(* pipe_end_flush: [h, handle]; the wait handle is given to a blocking async *)
pipe_end_flush(h, e, blocking) ==
    LET connection == h.pipe_end[e].connection
    IN  IF use_server_io(h, e)
           /\ (connection = NULL \/ h.pipe_end[connection].message_queue = <<>>)
        THEN [h |-> h, handle |-> FALSE]
        ELSE [h |-> set_error(fd_queue_async(h, e, Async("flush", e, 0)), "PENDING"),
              handle |-> blocking]

pipe_server_flush(h, s, blocking) ==
    IF h.server[s].state # "connected_server" THEN h
    ELSE IF h.server[s].client = NULL THEN [h EXCEPT !.aborted = TRUE]  \* assert( server->client )
    ELSE IF ~pipe_data_remaining(h, s) THEN h
    ELSE LET poll(r) ==
                 IF r.handle /\ ~use_server_io(r.h, s) /\ ~r.h.server[s].flush_poll
                 THEN [r.h EXCEPT !.server[s].flush_poll = TRUE]
                 ELSE r.h
         IN  poll(pipe_end_flush(h, s, blocking))

pipe_client_flush(h, c, blocking) ==
    IF use_server_io(h, c) THEN pipe_end_flush(h, c, blocking).h ELSE h

(* check_flushed, the callback of the flush_poll timer of server s *)
check_flushed(h, s) ==
    IF h.server[s].client = NULL THEN [h EXCEPT !.aborted = TRUE]       \* assert( server->client )
    ELSE IF pipe_data_remaining(h, s) THEN [h EXCEPT !.server[s].flush_poll = TRUE]
    ELSE fd_async_wake_up([h EXCEPT !.server[s].flush_poll = FALSE], s, "SUCCESS")

(* ------------------------------ data I/O ------------------------------ *)
pipe_end_read(h, e, size) ==
    IF ~use_server_io(h, e) THEN set_error(h, "OBJECT_TYPE_MISMATCH")     \* no_fd_read
    ELSE IF h.pipe_end[e].connection = NULL /\ h.pipe_end[e].message_queue = <<>>
    THEN set_error(h, "PIPE_BROKEN")
    ELSE LET h1 == [h EXCEPT !.pipe_end[e].read_q = queue_async(@, Async("read", e, size))]
         IN  set_error(reselect_read_queue(h1, e), "PENDING")

pipe_end_write_at_head(h, e, data) ==
    LET read_end == h.pipe_end[e].connection
    IN  IF ~use_server_io(h, e) THEN set_error(h, "OBJECT_TYPE_MISMATCH")
        ELSE IF read_end = NULL THEN set_error(h, "PIPE_DISCONNECTED")
        ELSE LET m == Message(data, Async("write", e, Len(data)))
                 h1 == [h EXCEPT !.pipe_end[read_end].message_queue = <<m>> \o @]
             IN  set_error(reselect_write_queue(h1, e), "PENDING")

(* pipe_end_write of the payload `data` *)
pipe_end_write(h, e, data) ==
    LET read_end == h.pipe_end[e].connection
    IN  IF ~use_server_io(h, e) THEN set_error(h, "OBJECT_TYPE_MISMATCH")  \* no_fd_write
        ELSE IF read_end = NULL THEN set_error(h, "PIPE_DISCONNECTED")
        ELSE LET m == Message(data, Async("write", e, Len(data)))
                 h1 == [h EXCEPT !.pipe_end[read_end].message_queue = Append(@, m)]
             IN  set_error(reselect_write_queue(h1, e), "PENDING")

(* pipe_client_get_fd: a client without fd cannot be operated on *)
pipe_client_get_fd(h, c) == h.pipe_end[c].fd # "none"

(* ------------------------------ actions ------------------------------- *)
(* the completions in d of the reads that were pending on pipe end e *)
ReadsOf(d, e) == SelectSeq(d, LAMBDA x : x.async.kind = "read" /\ x.async.end = e)

(* the bytes the completions of d carry, in order *)
RECURSIVE ConcatData(_)
ConcatData(d) == IF d = <<>> THEN <<>> ELSE Head(d).data \o ConcatData(Tail(d))

(* the flush asyncs pending on pipe end e *)
FlushesOn(h, e) ==
    SelectSeq(IF h.pipe_end[e].fd = "ioctl" THEN h.server[e].ioctl_wait ELSE h.pipe_end[e].wait_q,
              LAMBDA a : a.kind = "flush")

(* the bytes queued for the peer of pipe end e and not yet read by it *)
QueuedFor(h, e) ==
    LET peer == h.pipe_end[e].connection
    IN  IF peer = NULL THEN 0
        ELSE IF use_server_io(h, e) THEN SumRemaining(h.pipe_end[peer].message_queue)
        ELSE h.sock[peer]

Commit(h, r, n) ==
    /\ pipe' = h.pipe
    /\ pipe_end' = h.pipe_end
    /\ server' = h.server
    /\ client' = h.client
    /\ ignore_reselect' = h.ignore_reselect
    /\ aborted' = h.aborted
    /\ done' = h.done
    /\ ret' = r
    /\ sock' = h.sock
    /\ owed' = [e \in Ends |->
                    IF r.op = "flush" /\ r.end = e /\ r.status = "PENDING" THEN QueuedFor(h, e)
                    ELSE IF FlushesOn(Heap, e) = <<>> THEN 0
                    ELSE LET peer == pipe_end[e].connection
                             taken == IF peer = NULL THEN 0
                                      ELSE Len(ConcatData(ReadsOf(h.done, peer)))
                         IN  IF taken >= owed[e] THEN 0 ELSE owed[e] - taken]
    /\ relistened' = {s \in Servers : /\ h.server[s].state = "wait_open"
                                      /\ s \in relistened \/ server[s].state = "wait_connect"}
    \* the byte labels start again once no message is queued anywhere
    /\ nbytes' = IF \A e \in Ends : h.pipe_end[e].message_queue = <<>> THEN 0 ELSE n

FreeIn(S) == {e \in S : ~pipe_end[e].alive}

Lowest(S) == CHOOSE e \in S : \A f \in S : e <= f

Bytes(from, n) == [i \in 1..n |-> from + i]

(* a create_named_pipe request *)
CreateNamedPipe(req) ==
    /\ ~aborted
    /\ FreeIn(Servers) # {}
    /\ LET s == Lowest(FreeIn(Servers))
           reply(h) ==
               Commit(h, Ret("create", IF h.err = "SUCCESS" THEN s ELSE NULL, h.err, 0, NULL),
                      nbytes)
       IN  reply(create_named_pipe(Heap, s, req))

(* a create_named_pipe request that passes the checks of the handler and
   meets an allocation failure *)
CreateNamedPipeFailing(req, fail) ==
    /\ ~aborted
    /\ FreeIn(Servers) # {}
    /\ create_named_pipe(Heap, Lowest(FreeIn(Servers)), req).err = "SUCCESS"
    /\ Commit(create_named_pipe_failing(Heap, Lowest(FreeIn(Servers)), req, fail),
              Ret("create", NULL, "NO_MEMORY", 0, NULL), nbytes)

(* a client open that finds a server, is granted the access and meets an
   allocation failure *)
OpenFileFailing(fail) ==
    /\ ~aborted
    /\ pipe.exists
    /\ FreeIn(Clients) # {}
    /\ find_available_server(Heap) # NULL
    /\ fail \in OpenFailures(Heap)
    /\ Commit(named_pipe_open_file_failing(Heap, Lowest(FreeIn(Clients)), fail),
              Ret("open", find_available_server(Heap), "NO_MEMORY", 0, NULL), nbytes)

(* an ioctl FSCTL_PIPE_LISTEN on a server handle *)
Listen(s) ==
    /\ ~aborted
    /\ pipe_end[s].alive
    /\ LET reply(h) == Commit(h, Ret("listen", s, h.err, 0, NULL), nbytes)
       IN  reply(pipe_server_listen(Heap, s))

(* an ioctl FSCTL_PIPE_DISCONNECT on a server handle *)
Disconnect(s) ==
    /\ ~aborted
    /\ pipe_end[s].alive
    /\ LET reply(h) == Commit(h, Ret("disconnect", s, h.err, 0, NULL), nbytes)
       IN  reply(pipe_server_disconnect(Heap, s))

(* a client opens the named pipe; an open that finds no server allocates no
   client *)
OpenFile(access) ==
    /\ ~aborted
    /\ pipe.exists
    /\ FreeIn(Clients) # {} \/ find_available_server(Heap) = NULL
    /\ LET c == IF FreeIn(Clients) # {} THEN Lowest(FreeIn(Clients)) ELSE NULL
           reply(h) ==
               Commit(h, Ret("open", find_available_server(Heap), h.err, 0,
                             IF h.err = "SUCCESS" THEN c ELSE NULL), nbytes)
       IN  reply(named_pipe_open_file(Heap, c, access))

(* the last handle of a server is closed *)
CloseServer(s) ==
    /\ ~aborted
    /\ pipe_end[s].alive
    /\ Commit(pipe_server_destroy(Heap, s), Ret("close_server", s, "SUCCESS", 0, NULL), nbytes)

(* the last handle of a client is closed *)
CloseClient(c) ==
    /\ ~aborted
    /\ pipe_end[c].alive
    /\ Commit(pipe_client_destroy(Heap, c),
              Ret("close_client", c, "SUCCESS", 0, client[c].server), nbytes)

(* an ioctl FSCTL_PIPE_WAIT on the device, naming the pipe; at most maxw wait *)
PipeWait(maxw) ==
    /\ ~aborted
    /\ Len(pipe.waiters) < maxw
    /\ LET reply(h) == Commit(h, Ret("wait", NULL, h.err, 0, NULL), nbytes)
       IN  reply(named_pipe_device_ioctl(Heap))

(* a read request of `size` bytes on a pipe end; at most maxq reads pend *)
Read(e, size, maxq) ==
    /\ ~aborted
    /\ pipe_end[e].alive
    /\ Len(pipe_end[e].read_q) < maxq
    /\ LET reply(h) == Commit(h, Ret("read", e, h.err, size, NULL), nbytes)
       IN  reply(IF e \in Clients /\ ~pipe_client_get_fd(Heap, e)
                 THEN set_error(Heap, "PIPE_DISCONNECTED")
                 ELSE pipe_end_read(Heap, e, size))

(* a write request of `size` bytes on a pipe end; at most maxbytes labelled
   bytes and maxmsgs messages per queue *)
Write(e, size, maxbytes, maxmsgs) ==
    /\ ~aborted
    /\ pipe_end[e].alive
    /\ nbytes + size <= maxbytes
    /\ pipe_end[e].connection # NULL =>
           Len(pipe_end[pipe_end[e].connection].message_queue) < maxmsgs
    /\ LET reply(h) ==
               Commit(h, Ret("write", e, h.err, size, NULL),
                      IF h.err = "PENDING" THEN nbytes + size ELSE nbytes)
       IN  reply(IF e \in Clients /\ ~pipe_client_get_fd(Heap, e)
                 THEN set_error(Heap, "PIPE_DISCONNECTED")
                 ELSE pipe_end_write(Heap, e, Bytes(nbytes, size)))

(* the write async of message i that pipe end e queued at its reader is
   cancelled while it is pending *)
Cancel(e, i) ==
    /\ ~aborted
    /\ pipe_end[e].alive
    /\ pipe_end[e].connection # NULL
    /\ i \in 1..Len(pipe_end[pipe_end[e].connection].message_queue)
    /\ LET m == pipe_end[pipe_end[e].connection].message_queue[i]
       IN  m.async # NoAsync /\ m.async.end = e
    /\ Commit(cancel_async(Heap, e, i), Ret("cancel", e, "CANCELLED", i, NULL), nbytes)

(* an ioctl FSCTL_PIPE_PEEK on a pipe end (pipe_server_ioctl,
   pipe_client_ioctl); the reply carries ReadDataAvailable and MessageLength *)
Peek(e, fits, room) ==
    /\ ~aborted
    /\ pipe_end[e].alive
    /\ LET reply(r) ==
               Commit(r.h, Ret("peek", e, r.h.err, r.reply.ReadDataAvailable,
                               r.reply.MessageLength), nbytes)
       IN  reply(IF e \in Clients /\ ~pipe_client_get_fd(Heap, e)
                 THEN [h |-> set_error(Heap, "PIPE_DISCONNECTED"), reply |-> NoPeek]
                 ELSE pipe_end_peek(Heap, e, fits, room))

(* a flush request on a pipe end, with a blocking async or not; at most maxf
   flushes pend on the end *)
Flush(e, blocking, maxf) ==
    /\ ~aborted
    /\ pipe_end[e].alive
    /\ Len(FlushesOn(Heap, e)) < maxf
    /\ LET reply(h) == Commit(h, Ret("flush", e, h.err, IF blocking THEN 1 ELSE 0, NULL), nbytes)
       IN  reply(IF e \in Clients
                 THEN IF ~pipe_client_get_fd(Heap, e)
                      THEN set_error(Heap, "PIPE_DISCONNECTED")
                      ELSE pipe_client_flush(Heap, e, blocking)
                 ELSE pipe_server_flush(Heap, e, blocking))

(* the flush_poll timer of server s fires *)
CheckFlushed(s) ==
    /\ ~aborted
    /\ pipe_end[s].alive
    /\ server[s].flush_poll
    /\ Commit(check_flushed(Heap, s), Ret("timer", s, "SUCCESS", 0, NULL), nbytes)

(* a process writes a byte to the byte-mode socket of pipe end e: it lands in
   the receive buffer of the other socket of the pair; at most maxs wait there *)
SockWrite(e, maxs) ==
    /\ ~aborted
    /\ pipe_end[e].alive
    /\ pipe_end[e].fd = "sock"
    /\ pipe_end[e].connection # NULL
    /\ sock[pipe_end[e].connection] < maxs
    /\ sock' = [sock EXCEPT ![pipe_end[e].connection] = @ + 1]
    /\ ret' = Ret("sock_write", e, "SUCCESS", 1, NULL)
    /\ done' = <<>>
    /\ UNCHANGED <<pipe, pipe_end, server, client, ignore_reselect, aborted, nbytes, owed,
                   relistened>>

(* a process reads a byte from the byte-mode socket of pipe end e *)
SockRead(e) ==
    /\ ~aborted
    /\ pipe_end[e].alive
    /\ pipe_end[e].fd = "sock"
    /\ sock[e] > 0
    /\ sock' = [sock EXCEPT ![e] = @ - 1]
    /\ owed' = [f \in Ends |->
                    IF pipe_end[e].connection = f /\ owed[f] > 0 THEN owed[f] - 1 ELSE owed[f]]
    /\ ret' = Ret("sock_read", e, "SUCCESS", 1, NULL)
    /\ done' = <<>>
    /\ UNCHANGED <<pipe, pipe_end, server, client, ignore_reselect, aborted, nbytes,
                   relistened>>

(* a set_named_pipe_info request on a pipe end *)
SetNamedPipeInfo(e, flags) ==
    /\ ~aborted
    /\ pipe_end[e].alive
    /\ LET reply(h) == Commit(h, Ret("set_info", e, h.err, 0, NULL), nbytes)
       IN  reply(set_named_pipe_info(Heap, e, flags))

(* --------------------------- specifications --------------------------- *)
Init ==
    /\ pipe = NoPipe
    /\ pipe_end = [e \in Ends |-> NoEnd]
    /\ server = [s \in Servers |-> NoServer]
    /\ client = [c \in Clients |-> NoClient]
    /\ ignore_reselect = FALSE
    /\ aborted = FALSE
    /\ nbytes = 0
    /\ ret = NoRet
    /\ done = <<>>
    /\ sock = [e \in Ends |-> 0]
    /\ owed = [e \in Ends |-> 0]
    /\ relistened = {}

RW == {GENERIC_READ, GENERIC_WRITE}
ShareRW == {SHARE_READ, SHARE_WRITE}

(* Spec: the server state machine over several instances of the pipe, byte
   mode or message mode, every instance created with the flags of the first;
   one-byte writes and reads flow from the client of the first instance to
   that instance *)
CreateReqs ==
    [sharing : {ShareRW}, flags : {{}, {MSG_WRITE}},
     maxinstances : {MaxServers}, insize : {4}, outsize : {4}]

Next ==
    \/ \E req \in CreateReqs : (pipe.exists => req.flags = pipe.flags) /\ CreateNamedPipe(req)
    \/ \E s \in Servers : Listen(s)
    \/ \E s \in Servers : Disconnect(s)
    \/ OpenFile(RW)
    \/ \E s \in Servers : CloseServer(s)
    \/ \E c \in Clients : CloseClient(c)
    \/ Read(Lowest(Servers), 1, 1)
    \/ \E e \in Clients : client[e].server = Lowest(Servers) /\ Write(e, 1, 1, 1)

Spec == Init /\ [][Next]_vars

(* SpecIO: one instance, byte mode or message mode with a one-byte buffer
   budget, its connections made and broken while small reads and writes are
   in flight on both ends and FSCTL_PIPE_WAIT requests queue on the pipe *)
IOCreateReqs ==
    [sharing : {ShareRW}, flags : {{}, {MSG_WRITE}},
     maxinstances : {1}, insize : {1}, outsize : {1}]

NextIO ==
    \/ \E req \in IOCreateReqs : CreateNamedPipe(req)
    \/ \E s \in Servers : Listen(s)
    \/ \E s \in Servers : Disconnect(s)
    \/ OpenFile(RW)
    \/ \E s \in Servers : CloseServer(s)
    \/ \E c \in Clients : CloseClient(c)
    \/ \E e \in Ends : Read(e, 1, MaxReads)
    \/ \E e \in Ends, size \in 1..2 : Write(e, size, ConnBytes, ConnMsgs)
    \/ PipeWait(MaxWaiters)

SpecIO == Init /\ [][NextIO]_vars

(* SpecMsg: one connected message-mode pair with a four-byte buffer budget;
   the client writes, the server reads in either read mode *)
MsgCreateReqs ==
    [sharing : {ShareRW}, flags : {{MSG_WRITE}, {MSG_WRITE, MSG_READ}},
     maxinstances : {1}, insize : {4}, outsize : {4}]

NextMsg ==
    \/ \E req \in MsgCreateReqs : CreateNamedPipe(req)
    \/ OpenFile(RW)
    \/ \E e \in Servers, size \in 0..MaxSize : Read(e, size, MaxReads)
    \/ \E e \in Clients, size \in 0..MaxSize : Write(e, size, MaxBytes, MaxMsgs)
    \/ \E e \in Servers, flags \in {{}, {MSG_READ}} : SetNamedPipeInfo(e, flags)

SpecMsg == Init /\ [][NextMsg]_vars

(* SpecFlush: one instance, byte mode or message mode with a one-byte buffer
   budget; both ends write and flush, blocking or not, the peer reads, the
   flush timer fires, and the connection is broken from either side *)
NextFlush ==
    \/ \E req \in IOCreateReqs : CreateNamedPipe(req)
    \/ OpenFile(RW)
    \/ \E s \in Servers : Disconnect(s)
    \/ \E c \in Clients : CloseClient(c)
    \/ \E e \in Ends : Read(e, 1, 1)
    \/ \E e \in Ends : Write(e, 1, ConnBytes, ConnMsgs)
    \/ \E e \in Ends, blocking \in BOOLEAN : Flush(e, blocking, MaxFlushes)
    \/ \E s \in Servers : CheckFlushed(s)
    \/ \E e \in Ends : SockWrite(e, MaxSock)
    \/ \E e \in Ends : SockRead(e)

SpecFlush == Init /\ [][NextFlush]_vars

(* SpecPeek: one instance, byte mode or message mode; messages of up to two
   bytes are written by either end, read a byte at a time and peeked *)
PeekCreateReqs ==
    [sharing : {ShareRW}, flags : {{}, {MSG_WRITE}},
     maxinstances : {1}, insize : {4}, outsize : {4}]

NextPeek ==
    \/ \E req \in PeekCreateReqs : CreateNamedPipe(req)
    \/ OpenFile(RW)
    \/ \E s \in Servers : Disconnect(s)
    \/ \E e \in Ends : Read(e, 1, 1)
    \/ \E e \in Ends, size \in 0..2 : Write(e, size, ConnBytes, ConnMsgs)
    \/ \E e \in Ends, fits \in BOOLEAN, room \in 0..1 : Peek(e, fits, room)

SpecPeek == Init /\ [][NextPeek]_vars

(* SpecCancel: one message-mode instance with a buffer of no or one byte;
   messages of up to two bytes are written by either end, read a byte at a
   time, and their pending writes cancelled *)
CancelCreateReqs ==
    [sharing : {ShareRW}, flags : {{MSG_WRITE}},
     maxinstances : {1}, insize : {0, 1}, outsize : {1}]

NextCancel ==
    \/ \E req \in CancelCreateReqs : CreateNamedPipe(req)
    \/ OpenFile(RW)
    \/ \E e \in Ends : Read(e, 1, 1)
    \/ \E e \in Ends, size \in 0..2 : Write(e, size, ConnBytes, ConnMsgs)
    \/ \E e \in Ends, i \in 1..ConnMsgs : Cancel(e, i)

SpecCancel == Init /\ [][NextCancel]_vars

(* SpecOnce: one message-mode instance with a one-byte buffer; messages of one
   or two bytes are written, read a byte at a time and cancelled while the
   connection is made, disconnected and its ends destroyed *)
OnceCreateReqs ==
    [sharing : {ShareRW}, flags : {{MSG_WRITE}},
     maxinstances : {1}, insize : {1}, outsize : {1}]

NextOnce ==
    \/ \E req \in OnceCreateReqs : CreateNamedPipe(req)
    \/ \E s \in Servers : Disconnect(s)
    \/ OpenFile(RW)
    \/ \E s \in Servers : CloseServer(s)
    \/ \E c \in Clients : CloseClient(c)
    \/ \E e \in Ends : Read(e, 1, 1)
    \/ \E e \in Ends, size \in 1..2 : Write(e, size, ConnBytes, ConnMsgs)
    \/ \E e \in Ends, i \in 1..ConnMsgs : Cancel(e, i)

SpecOnce == Init /\ [][NextOnce]_vars

(* SpecFlags: up to MaxServers instances, each created with the flags its
   own create_named_pipe request carries, opened, disconnected and destroyed,
   with set_named_pipe_info requests on both ends *)
FlagCreateReqs ==
    [sharing : {ShareRW}, flags : {{}, {MSG_WRITE}},
     maxinstances : {MaxServers}, insize : {1}, outsize : {1}]

NextFlags ==
    \/ \E req \in FlagCreateReqs : CreateNamedPipe(req)
    \/ \E s \in Servers : Listen(s)
    \/ \E s \in Servers : Disconnect(s)
    \/ OpenFile(RW)
    \/ \E s \in Servers : CloseServer(s)
    \/ \E c \in Clients : CloseClient(c)
    \/ \E e \in Ends, flags \in {{}, {MSG_READ}} : SetNamedPipeInfo(e, flags)

SpecFlags == Init /\ [][NextFlags]_vars

(* SpecInstances: up to MaxServers byte-mode instances of one pipe, created,
   opened, disconnected and destroyed while FSCTL_PIPE_WAIT requests queue on
   the pipe *)
InstanceCreateReqs ==
    [sharing : {ShareRW}, flags : {{}},
     maxinstances : {MaxServers}, insize : {1}, outsize : {1}]

NextInstances ==
    \/ \E req \in InstanceCreateReqs : CreateNamedPipe(req)
    \/ \E s \in Servers : Listen(s)
    \/ \E s \in Servers : Disconnect(s)
    \/ OpenFile(RW)
    \/ \E s \in Servers : CloseServer(s)
    \/ \E c \in Clients : CloseClient(c)
    \/ PipeWait(MaxWaiters)

SpecInstances == Init /\ [][NextInstances]_vars

(* SpecAlloc: up to MaxServers instances, byte mode or message mode, whose
   creation and whose opens may meet allocation failures *)
AllFailures ==
    CreateFailures \cup {"create_pipe_client", "alloc_pseudo_fd", "socketpair",
                         "client_fd", "server_fd", "both_fd"}

NextAlloc ==
    \/ \E req \in CreateReqs : CreateNamedPipe(req)
    \/ \E req \in CreateReqs, fail \in CreateFailures : CreateNamedPipeFailing(req, fail)
    \/ OpenFile(RW)
    \/ \E fail \in AllFailures : OpenFileFailing(fail)
    \/ \E s \in Servers : Listen(s)
    \/ \E s \in Servers : Disconnect(s)
    \/ \E s \in Servers : CloseServer(s)
    \/ \E c \in Clients : CloseClient(c)

SpecAlloc == Init /\ [][NextAlloc]_vars

(* SpecWait: one instance at a time of a pipe created with maxinstances 1;
   FSCTL_PIPE_WAIT requests arrive while the pipe does not exist, while its
   server is available and while it is not *)
WaitCreateReqs ==
    [sharing : {ShareRW}, flags : {{}, {MSG_WRITE}},
     maxinstances : {1}, insize : {1}, outsize : {1}]

NextWait ==
    \/ \E req \in WaitCreateReqs : CreateNamedPipe(req)
    \/ \E s \in Servers : Listen(s)
    \/ \E s \in Servers : Disconnect(s)
    \/ OpenFile(RW)
    \/ \E s \in Servers : CloseServer(s)
    \/ \E c \in Clients : CloseClient(c)
    \/ PipeWait(WaitCallers)

SpecWait == Init /\ [][NextWait]_vars

(* SpecCreate: create requests that quote any sharing, valid or not, and any
   maxinstances from 0, against instances that listen and are destroyed *)
AnyCreateReqs ==
    [sharing : {ShareRW, {SHARE_READ}, {}}, flags : {{}, {MSG_WRITE}},
     maxinstances : 0..CreateMax, insize : {1}, outsize : {1}]

NextCreate ==
    \/ \E req \in AnyCreateReqs : CreateNamedPipe(req)
    \/ \E s \in Servers : Listen(s)
    \/ \E s \in Servers : CloseServer(s)

SpecCreate == Init /\ [][NextCreate]_vars

(* SpecOpen: pipes of every sharing, opened with every access *)
OpenCreateReqs ==
    [sharing : {ShareRW, {SHARE_READ}, {SHARE_WRITE}}, flags : {{}, {MSG_WRITE}},
     maxinstances : {1}, insize : {1}, outsize : {1}]

NextOpen ==
    \/ \E req \in OpenCreateReqs : CreateNamedPipe(req)
    \/ \E s \in Servers : Listen(s)
    \/ \E s \in Servers : Disconnect(s)
    \/ \E access \in SUBSET RW : OpenFile(access)
    \/ \E s \in Servers : CloseServer(s)
    \/ \E c \in Clients : CloseClient(c)

SpecOpen == Init /\ [][NextOpen]_vars

(* ----------------------------- properties ----------------------------- *)
ListenAsync(s) == Async("listen", s, 0)

(* the statuses with which async a was completed in the completion list d *)
StatusesOf(d, a) == {d[i].status : i \in {j \in 1..Len(d) : d[j].async = a}}

(* C1: FSCTL_PIPE_LISTEN on a server in idle_server or wait_connect queues the
   listen async on the ioctl fd, moves the server to wait_open and returns
   pending; a listening server always has its listen async queued, and the
   async is completed only by a client open that selects this server (a close
   of the server drops it) *)
C1_ListenPends ==
    ~aborted => \A s \in Servers :
        /\ pipe_end[s].alive /\ server[s].state \in {"idle_server", "wait_connect"} =>
               LET h == pipe_server_listen(Heap, s)
               IN  /\ h.err = "PENDING"
                   /\ ~h.aborted
                   /\ h.server[s].state = "wait_open"
                   /\ h.server[s].ioctl_wait = <<ListenAsync(s)>>
                   /\ StatusesOf(h.done, ListenAsync(s)) = {}
        /\ server[s].state = "wait_open" => server[s].ioctl_wait = <<ListenAsync(s)>>
        /\ StatusesOf(done, ListenAsync(s)) # {} =>
               ret.op = "open" /\ ret.end = s /\ ret.status = "SUCCESS"

(* a server keeps listening, its async queued, across a client open that
   selected another listening server *)
C1_Witness ==
    \E s \in Servers :
        /\ server[s].state = "wait_open"
        /\ server[s].ioctl_wait = <<ListenAsync(s)>>
        /\ ret.op = "open" /\ ret.status = "SUCCESS" /\ ret.end # s

(* C2: a successful client open leaves exactly one server, the chosen one, in
   connected_server with server.client = client, client.server = server and
   the two connection edges pointing at each other; a server that was in
   wait_open has its listen async completed with success, one that was in
   idle_server has no async completed *)
C2_OpenConnects ==
    ~aborted /\ pipe.exists /\ FreeIn(Clients) # {} =>
        LET c == Lowest(FreeIn(Clients))
            h == named_pipe_open_file(Heap, c, RW)
        IN  h.err = "SUCCESS" =>
                \E s \in Servers :
                    /\ {t \in Servers : h.server[t].client = c} = {s}
                    /\ \A t \in Servers \ {s} : h.server[t] = server[t]
                    /\ ~h.aborted
                    /\ h.pipe_end[c].alive
                    /\ h.server[s].state = "connected_server"
                    /\ h.client[c].server = s
                    /\ h.pipe_end[s].connection = c
                    /\ h.pipe_end[c].connection = s
                    /\ server[s].state \in {"wait_open", "idle_server"}
                    /\ server[s].state = "wait_open" =>
                           h.done = <<Completion(ListenAsync(s), "SUCCESS", "SUCCESS", <<>>)>>
                    /\ server[s].state = "idle_server" => h.done = <<>>

(* a client has just been connected to a server that was listening *)
C2_Witness ==
    /\ ret.op = "open" /\ ret.status = "SUCCESS"
    /\ server[ret.end].state = "connected_server"
    /\ server[ret.end].client = ret.obj
    /\ pipe_end[ret.obj].connection = ret.end
    /\ done = <<Completion(ListenAsync(ret.end), "SUCCESS", "SUCCESS", <<>>)>>

(* C3: a client open is paired with a server that was in wait_open if there
   was one, otherwise with one that was in idle_server; when every instance
   is in connected_server, wait_disconnect or wait_connect it fails with
   pipe_not_available, no client is created and nothing changes *)
C3_OpenSelects ==
    ~aborted /\ pipe.exists /\ FreeIn(Clients) # {} =>
        LET c == Lowest(FreeIn(Clients))
            h == named_pipe_open_file(Heap, c, RW)
            listening == {s \in Servers : server[s].state = "wait_open"}
            idle == {s \in Servers : server[s].state = "idle_server"}
            paired == {s \in Servers : h.server[s].client = c}
        IN  /\ listening # {} =>
                   h.err = "SUCCESS" /\ paired # {} /\ paired \subseteq listening
            /\ listening = {} /\ idle # {} =>
                   h.err = "SUCCESS" /\ paired # {} /\ paired \subseteq idle
            /\ listening = {} /\ idle = {} =>
                   /\ h.err = "PIPE_NOT_AVAILABLE"
                   /\ h.done = <<>>
                   /\ h.pipe = pipe /\ h.server = server
                   /\ h.client = client /\ h.pipe_end = pipe_end

(* an open was given the listening server although an idle instance comes
   before it in the pipe's list *)
C3_Witness ==
    /\ ret.op = "open" /\ ret.status = "SUCCESS" /\ done # <<>>
    /\ \E i, j \in 1..Len(pipe.servers) :
           /\ i < j
           /\ server[pipe.servers[i]].state = "idle_server"
           /\ server[pipe.servers[j]].client = ret.obj

(* the asyncs still pending on pipe end e: its reads, the waits on its fd and
   the writes whose messages sit unacknowledged in the peer's queue q *)
PendingWrites(q) == Len(SelectSeq(q, LAMBDA m : m.async # NoAsync))

PendingOn(e) ==
    Len(pipe_end[e].read_q) + Len(pipe_end[e].wait_q) + PendingWrites(pipe_end[e].message_queue)

(* C4: FSCTL_PIPE_DISCONNECT on a server in connected_server moves it to
   wait_connect, completes every pending async of both ends with
   pipe_disconnected, releases the server's data fd and leaves server.client,
   client.server and both connection edges null *)
C4_DisconnectCompletes ==
    ~aborted => \A s \in Servers :
        server[s].state = "connected_server" =>
            LET c == server[s].client
                h == pipe_server_disconnect(Heap, s)
            IN  /\ h.err = "SUCCESS"
                /\ ~h.aborted
                /\ h.server[s].state = "wait_connect"
                /\ h.pipe_end[s].fd = "none"
                /\ h.server[s].client = NULL
                /\ h.client[c].server = NULL
                /\ h.pipe_end[s].connection = NULL
                /\ h.pipe_end[c].connection = NULL
                /\ Len(h.done) = PendingOn(s) + PendingOn(c)
                /\ \A i \in 1..Len(h.done) : h.done[i].status = "PIPE_DISCONNECTED"

(* C5: when the client of a connected server is destroyed, every pending read
   of the server completes with pipe_broken and the server moves to
   wait_disconnect with server.client null, still holding its data fd; a
   FSCTL_PIPE_DISCONNECT in wait_disconnect then moves it to wait_connect and
   releases the data fd *)
C5_ClientDestroyed ==
    ~aborted =>
        /\ \A c \in Clients :
               pipe_end[c].alive /\ client[c].server # NULL =>
                   LET s == client[c].server
                       h == pipe_client_destroy(Heap, c)
                       reads == ReadsOf(h.done, s)
                   IN  /\ ~h.aborted
                       /\ server[s].state = "connected_server"
                       /\ Len(reads) = Len(pipe_end[s].read_q)
                       /\ \A i \in 1..Len(reads) : reads[i].status = "PIPE_BROKEN"
                       /\ h.pipe_end[s].read_q = <<>>
                       /\ h.server[s].state = "wait_disconnect"
                       /\ h.server[s].client = NULL
                       /\ h.pipe_end[s].fd # "none"
                       /\ h.pipe_end[s].fd = pipe_end[s].fd
        /\ \A s \in Servers :
               server[s].state = "wait_disconnect" =>
                   LET h == pipe_server_disconnect(Heap, s)
                   IN  /\ server[s].client = NULL
                       /\ pipe_end[s].fd # "none"
                       /\ ~h.aborted
                       /\ h.err = "SUCCESS"
                       /\ h.server[s].state = "wait_connect"
                       /\ h.pipe_end[s].fd = "none"

(* a client was just closed while its server had a read pending *)
C5_Witness ==
    /\ ret.op = "close_client" /\ ret.obj # NULL
    /\ server[ret.obj].state = "wait_disconnect"
    /\ pipe_end[ret.obj].fd # "none"
    /\ ReadsOf(done, ret.obj) # <<>>
    /\ \A i \in 1..Len(done) : done[i].status = "PIPE_BROKEN"

(* C6: FSCTL_PIPE_LISTEN fails with invalid_handle in wait_open, with
   pipe_connected in connected_server and with no_data_detected in
   wait_disconnect, and leaves the servers, their listen asyncs, the pipe's
   waiters and every connection as they were; a server in wait_disconnect
   leaves that state only to wait_connect by FSCTL_PIPE_DISCONNECT or by
   being destroyed, and a server enters wait_open only from idle_server or
   wait_connect *)
C6_ListenFails ==
    [][\A s \in Servers :
          /\ (ret'.op = "listen" /\ ret'.end = s /\ server[s].state = "wait_open") =>
                 ret'.status = "INVALID_HANDLE"
          /\ (ret'.op = "listen" /\ ret'.end = s /\ server[s].state = "connected_server") =>
                 ret'.status = "PIPE_CONNECTED"
          /\ (ret'.op = "listen" /\ ret'.end = s /\ server[s].state = "wait_disconnect") =>
                 ret'.status = "NO_DATA_DETECTED"
          /\ (ret'.op = "listen" /\ ret'.end = s
                 /\ server[s].state \in {"wait_open", "connected_server", "wait_disconnect"}) =>
                 /\ UNCHANGED <<pipe, pipe_end, server, client, aborted>>
                 /\ done' = <<>>
          /\ (server[s].state = "wait_disconnect" /\ server'[s].state # "wait_disconnect") =>
                 \/ ret'.op = "disconnect" /\ ret'.end = s /\ server'[s].state = "wait_connect"
                 \/ ret'.op = "close_server" /\ ret'.end = s /\ server'[s].state = "none"
          /\ (server[s].state # "wait_open" /\ server'[s].state = "wait_open") =>
                 /\ ret'.op = "listen" /\ ret'.end = s
                 /\ server[s].state \in {"idle_server", "wait_connect"}
      ]_vars

(* a listen was just refused on a server whose client is gone, while a
   FSCTL_PIPE_WAIT request stays queued on the pipe *)
C6_Witness ==
    /\ ret.op = "listen" /\ ret.status = "NO_DATA_DETECTED"
    /\ server[ret.end].state = "wait_disconnect"
    /\ pipe.waiters # <<>>

(* C7: FSCTL_PIPE_DISCONNECT fails with pipe_listening in idle_server and
   wait_open and with pipe_disconnected in wait_connect, and leaves the server
   state, the fds, the pending asyncs and the message queues as they were *)
C7_DisconnectFails ==
    ~aborted => \A s \in Servers :
        pipe_end[s].alive /\ server[s].state \in {"idle_server", "wait_open", "wait_connect"} =>
            LET h == pipe_server_disconnect(Heap, s)
            IN  /\ h.err = IF server[s].state = "wait_connect"
                           THEN "PIPE_DISCONNECTED" ELSE "PIPE_LISTENING"
                /\ ~h.aborted
                /\ h.done = <<>>
                /\ h.server = server /\ h.pipe_end = pipe_end
                /\ h.pipe = pipe /\ h.client = client

(* a disconnect was just refused on a listening server, whose listen async
   is still queued *)
C7_Witness ==
    /\ ret.op = "disconnect" /\ ret.status = "PIPE_LISTENING"
    /\ server[ret.end].state = "wait_open"
    /\ server[ret.end].ioctl_wait = <<ListenAsync(ret.end)>>

(* the listening servers that come before s in the pipe's list *)
ListeningBefore(s) ==
    {pipe.servers[i] : i \in {j \in 1..Len(pipe.servers) :
        /\ server[pipe.servers[j]].state = "wait_open"
        /\ \E k \in (j + 1)..Len(pipe.servers) : pipe.servers[k] = s}}

(* FSCTL_PIPE_LISTEN on a server whose connection has ended puts it in
   wait_open, and only such servers are recorded as listening again *)
RelistenReachesWaitOpen ==
    /\ \A s \in Servers :
           server[s].state = "wait_connect" =>
               LET h == pipe_server_listen(Heap, s)
               IN  h.err = "PENDING" /\ h.server[s].state = "wait_open"
    /\ \A s \in relistened : server[s].state = "wait_open"

(* what a client open that pairs new client c with server s leaves behind *)
PairedAfresh(h, s, c) ==
    /\ h.err = "SUCCESS"
    /\ ~h.aborted
    /\ h.server[s].state = "connected_server"
    /\ h.server[s].client = c
    /\ h.client[c].server = s
    /\ h.pipe_end[s].connection = c
    /\ h.pipe_end[c].connection = s
    /\ h.pipe_end[s].message_queue = <<>>
    /\ h.pipe_end[c].message_queue = <<>>

(* C8 as stated: after a connection of a server has ended, a following
   FSCTL_PIPE_LISTEN puts the server in wait_open and the next client open
   pairs a new client with that same server, with symmetric connection edges
   and empty message queues on both ends *)
C8_NextOpenSameServer ==
    ~aborted =>
        /\ RelistenReachesWaitOpen
        /\ pipe.exists /\ FreeIn(Clients) # {} =>
               \A s \in relistened :
                   LET c == Lowest(FreeIn(Clients))
                   IN  PairedAfresh(named_pipe_open_file(Heap, c, RW), s, c)

(* C8 amended: the next client open pairs a new client with that same server
   when no other listening instance comes before it in the pipe's list, with
   symmetric connection edges and empty message queues on both ends; when
   one does, that instance gets the client and this server keeps listening *)
C8_NextOpenFirstListening ==
    ~aborted =>
        /\ RelistenReachesWaitOpen
        /\ pipe.exists /\ FreeIn(Clients) # {} =>
               \A s \in relistened :
                   LET c == Lowest(FreeIn(Clients))
                       h == named_pipe_open_file(Heap, c, RW)
                   IN  /\ ListeningBefore(s) = {} => PairedAfresh(h, s, c)
                       /\ ListeningBefore(s) # {} =>
                              /\ h.err = "SUCCESS"
                              /\ h.server[s] = server[s]
                              /\ h.pipe_end[s] = pipe_end[s]
                              /\ \E t \in ListeningBefore(s) : PairedAfresh(h, t, c)

(* a client open has just been given to a listening instance while another
   instance, listening again after its connection ended, keeps waiting *)
C8_Witness ==
    /\ ret.op = "open" /\ ret.status = "SUCCESS"
    /\ server[ret.end].client = ret.obj
    /\ done = <<Completion(ListenAsync(ret.end), "SUCCESS", "SUCCESS", <<>>)>>
    /\ ret.end \in Servers
    /\ pipe_end[ret.end].message_queue = <<>>
    /\ \E t \in Servers \ {ret.end} : server[t].state = "wait_open" /\ t \in relistened

(* a heap handed to the next request: no completions yet, no error set *)
Fresh(h) == [h EXCEPT !.done = <<>>, !.err = "SUCCESS"]

(* payload and read position of the messages of a queue *)
Payloads(q) == [i \in 1..Len(q) |-> <<q[i].data, q[i].read_pos>>]

(* the reading end s of a connected message-mode pair with nothing queued *)
QuietPair(s) ==
    /\ server[s].state = "connected_server"
    /\ pipe_end[s].message_queue = <<>> /\ pipe_end[s].read_q = <<>>
    /\ pipe_end[server[s].client].message_queue = <<>>

(* writes "ABC", "DEFGH" and three reads of 4 bytes in message-stream-read
   mode: "ABC", then "DEFG" with buffer_overflow, then "H" *)
MessageReadExample(s) ==
    LET c == server[s].client
        w1 == pipe_end_write(Heap, c, Bytes(0, 3))
        w2 == pipe_end_write(Fresh(w1), c, Bytes(3, 5))
        r1 == pipe_end_read(Fresh(w2), s, 4)
        r2 == pipe_end_read(Fresh(r1), s, 4)
        r3 == pipe_end_read(Fresh(r2), s, 4)
        a == Async("read", s, 4)
    IN  /\ ReadsOf(r1.done, s) = <<Completion(a, "ALERTED", "SUCCESS", <<1, 2, 3>>)>>
        /\ ReadsOf(r2.done, s) = <<Completion(a, "ALERTED", "BUFFER_OVERFLOW", <<4, 5, 6, 7>>)>>
        /\ ReadsOf(r3.done, s) = <<Completion(a, "ALERTED", "SUCCESS", <<8>>)>>
        /\ r3.pipe_end[s].message_queue = <<>>

(* C9: in message-stream-read mode a read is satisfied from the head message
   only: it delivers min(size, bytes left in the head) bytes; when bytes of
   the head are left over its iosb reports buffer_overflow and the message
   stays at the head with read_pos advanced, otherwise it reports success and
   the message is removed; writes "ABC", "DEFGH" read with buffer 4 give
   "ABC", "DEFG" with buffer_overflow, "H" *)
C9_MessageRead ==
    ~aborted => \A s \in Servers :
        pipe_end[s].alive /\ MSG_READ \in pipe_end[s].flags =>
            LET q == pipe_end[s].message_queue
            IN  /\ q # <<>> => pipe_end[s].read_q = <<>>
                /\ q # <<>> => \A size \in 0..MaxSize :
                       LET m == Head(q)
                           rem == Len(m.data) - m.read_pos
                           n == Min(size, rem)
                           h == pipe_end_read(Heap, s, size)
                           rs == ReadsOf(h.done, s)
                           q2 == h.pipe_end[s].message_queue
                       IN  /\ h.err = "PENDING" /\ ~h.aborted
                           /\ h.pipe_end[s].read_q = <<>>
                           /\ Len(rs) = 1
                           /\ rs[1].async = Async("read", s, size)
                           /\ rs[1].data = SubSeq(m.data, m.read_pos + 1, m.read_pos + n)
                           /\ rs[1].status = IF n > 0 THEN "ALERTED" ELSE rs[1].iosb
                           /\ n < rem =>
                                  /\ rs[1].iosb = "BUFFER_OVERFLOW"
                                  /\ Payloads(q2) =
                                         <<<<m.data, m.read_pos + n>>>> \o Payloads(Tail(q))
                           /\ n = rem =>
                                  /\ rs[1].iosb = "SUCCESS"
                                  /\ Payloads(q2) = Payloads(Tail(q))
                /\ QuietPair(s) => MessageReadExample(s)

(* the second read of the example has just completed: "DEFG" delivered with
   buffer_overflow, "H" left in the head message *)
C9_Witness ==
    \E s \in Servers :
        /\ MSG_READ \in pipe_end[s].flags
        /\ ret = Ret("read", s, "PENDING", 4, NULL)
        /\ ReadsOf(done, s) = <<Completion(Async("read", s, 4), "ALERTED", "BUFFER_OVERFLOW",
                                           <<4, 5, 6, 7>>)>>
        /\ Payloads(pipe_end[s].message_queue) = <<<<(<<4, 5, 6, 7, 8>>), 4>>>>

(* writes "AB", "CD", "EF" and two reads of 5 bytes in byte-stream-read mode:
   "ABCDE", then "F" *)
ByteReadExample(s) ==
    LET c == server[s].client
        w1 == pipe_end_write(Heap, c, Bytes(0, 2))
        w2 == pipe_end_write(Fresh(w1), c, Bytes(2, 2))
        w3 == pipe_end_write(Fresh(w2), c, Bytes(4, 2))
        r1 == pipe_end_read(Fresh(w3), s, 5)
        r2 == pipe_end_read(Fresh(r1), s, 5)
        a == Async("read", s, 5)
    IN  /\ ReadsOf(r1.done, s) = <<Completion(a, "ALERTED", "SUCCESS", <<1, 2, 3, 4, 5>>)>>
        /\ ReadsOf(r2.done, s) = <<Completion(a, "ALERTED", "SUCCESS", <<6>>)>>
        /\ r2.pipe_end[s].message_queue = <<>>

(* C10: in byte-stream-read mode on a message-mode pipe a read delivers
   min(size, unread bytes queued) bytes, taken in order across the messages,
   and its iosb reports success; the unread bytes are always the last bytes
   written, in arrival order, so the reads concatenate to the writes; writes
   "AB", "CD", "EF" read with size 5 give "ABCDE" then "F" *)
C10_ByteRead ==
    ~aborted => \A s \in Servers :
        pipe_end[s].alive /\ MSG_WRITE \in pipe_end[s].flags =>
            LET q == pipe_end[s].message_queue
                unread == FlattenRemaining(q)
            IN  /\ \A i \in 1..Len(unread) : unread[i] = nbytes - Len(unread) + i
                /\ MSG_READ \notin pipe_end[s].flags =>
                    /\ q # <<>> => pipe_end[s].read_q = <<>>
                    /\ q # <<>> => \A size \in 0..MaxSize :
                           LET n == Min(size, Len(unread))
                               h == pipe_end_read(Heap, s, size)
                               rs == ReadsOf(h.done, s)
                           IN  /\ h.err = "PENDING" /\ ~h.aborted
                               /\ h.pipe_end[s].read_q = <<>>
                               /\ Len(rs) = 1
                               /\ rs[1].async = Async("read", s, size)
                               /\ rs[1].data = SubSeq(unread, 1, n)
                               /\ rs[1].iosb = "SUCCESS"
                               /\ rs[1].status = IF n > 0 THEN "ALERTED" ELSE "SUCCESS"
                               /\ FlattenRemaining(h.pipe_end[s].message_queue) =
                                      SubSeq(unread, n + 1, Len(unread))
                    /\ pipe_end[s].read_q # <<>> /\ server[s].client # NULL =>
                           \A size \in 0..MaxSize :
                               LET data == Bytes(nbytes, size)
                                   h == pipe_end_write(Heap, server[s].client, data)
                                   rs == ReadsOf(h.done, s)
                               IN  /\ h.err = "PENDING" /\ ~h.aborted
                                   /\ rs # <<>>
                                   /\ \A i \in 1..Len(rs) : rs[i].iosb = "SUCCESS"
                                   /\ Len(rs[1].data) = Min(pipe_end[s].read_q[1].size, size)
                                   /\ ConcatData(rs)
                                          \o FlattenRemaining(h.pipe_end[s].message_queue) = data
                    /\ QuietPair(s) => ByteReadExample(s)

(* the first read of the example has just completed: "ABCDE" delivered across
   three messages, "F" left in the last one *)
C10_Witness ==
    \E s \in Servers :
        /\ MSG_READ \notin pipe_end[s].flags
        /\ ret = Ret("read", s, "PENDING", 5, NULL)
        /\ ReadsOf(done, s) = <<Completion(Async("read", s, 5), "ALERTED", "SUCCESS",
                                           <<1, 2, 3, 4, 5>>)>>
        /\ Payloads(pipe_end[s].message_queue) = <<<<(<<5, 6>>), 1>>>>
(* the labels of a byte sequence grow: the bytes are in arrival order *)
Increasing(q) == \A i \in 1..(Len(q) - 1) : q[i] < q[i + 1]

(* C11: message-mode writes are appended to the reader's queue in arrival
   order, and reads receive the bytes in that order: after every request the
   bytes it delivered to the reads of an end, followed by the bytes still
   queued for that end, are in arrival order; a write leaves the reader with
   the bytes queued before followed by the bytes written, and a read takes
   its bytes from the front of what was queued, whether or not the writes of
   the queued messages are still pending *)
C11_ArrivalOrder ==
    [][/\ \A e \in Ends :
              Increasing(ConcatData(ReadsOf(done', e))
                         \o FlattenRemaining(pipe_end'[e].message_queue))
       /\ ret'.op = "write" /\ ret'.status = "PENDING" =>
              LET r == pipe_end[ret'.end].connection
                  data == Bytes(nbytes, ret'.arg)
              IN  /\ ConcatData(ReadsOf(done', r)) \o FlattenRemaining(pipe_end'[r].message_queue)
                         = FlattenRemaining(pipe_end[r].message_queue) \o data
                  /\ pipe_end[r].read_q = <<>> =>
                         Payloads(pipe_end'[r].message_queue)
                             = Payloads(pipe_end[r].message_queue) \o <<(<<data, 0>>)>>
       /\ ret'.op = "read" /\ ret'.status = "PENDING" =>
              ConcatData(ReadsOf(done', ret'.end))
                  \o FlattenRemaining(pipe_end'[ret'.end].message_queue)
                  = FlattenRemaining(pipe_end[ret'.end].message_queue)
      ]_vars

(* a read has just taken bytes of a write that was still pending for flow
   control, which completed it, while a later write stays pending behind it *)
C11_Witness ==
    /\ ret.op = "read"
    /\ \E i, j \in 1..Len(done) :
           /\ done[i].async.kind = "write" /\ done[i].async.size > 0
           /\ done[j].async.kind = "read" /\ done[j].data # <<>>
    /\ \E e \in Ends : PendingWrites(pipe_end[e].message_queue) > 0

(* the asyncs of a list of completions *)
AsyncsOf(d) == [i \in 1..Len(d) |-> d[i].async]

(* the read a request has just queued on pipe end e, if it is such a request *)
NewRead(e) ==
    IF ret'.op = "read" /\ ret'.end = e /\ ret'.status = "PENDING"
    THEN <<Async("read", e, ret'.arg)>> ELSE <<>>

(* C12: the reads pending on one end complete in the order they were queued:
   the reads a request completes on an end are the oldest ones of its read
   queue, in queue order, and the reads left pending are the later ones, so
   no read completes while an earlier read of the same end stays pending *)
C12_ReadsFifo ==
    [][\A e \in Ends :
          pipe_end[e].read_q \o NewRead(e) = AsyncsOf(ReadsOf(done', e)) \o pipe_end'[e].read_q
      ]_vars

(* a write has just completed the older of two pending reads with data while
   the newer one, of another size, stays pending *)
C12_Witness ==
    /\ ret.op = "write"
    /\ \E e \in Ends :
           /\ Len(ReadsOf(done, e)) = 1
           /\ ReadsOf(done, e)[1].data # <<>>
           /\ pipe_end[e].read_q # <<>>
           /\ pipe_end[e].read_q[1].size # ReadsOf(done, e)[1].async.size

(* the statuses with which a disconnect completes the asyncs of an end *)
DisconnectStatuses == {"PIPE_BROKEN", "PIPE_DISCONNECTED"}

(* C13: a read that reselect completes with bytes has its async terminated
   with alerted; one completed with no bytes is terminated with its iosb
   status, which is success, or buffer_overflow for a read of size zero in
   message-stream-read mode; no read stays pending on an end whose message
   queue is non-empty *)
C13_ReadStatus ==
    [][\A e \in Ends :
          /\ \A i \in 1..Len(ReadsOf(done', e)) :
                 LET x == ReadsOf(done', e)[i]
                 IN  x.status \notin DisconnectStatuses =>
                         /\ x.data # <<>> => x.status = "ALERTED"
                         /\ x.data # <<>> => Len(x.data) <= x.async.size
                         /\ x.data = <<>> => x.status = x.iosb
                         /\ x.data = <<>> => x.iosb \in {"SUCCESS", "BUFFER_OVERFLOW"}
                         /\ x.data = <<>> /\ x.iosb = "BUFFER_OVERFLOW" =>
                                x.async.size = 0 /\ MSG_READ \in pipe_end[e].flags
          /\ ~(pipe_end'[e].read_q # <<>> /\ pipe_end'[e].message_queue # <<>>)
      ]_vars

(* a read of size zero in message-stream-read mode has just completed on a
   non-empty message: no bytes, terminated with buffer_overflow, the message
   still queued *)
C13_Witness ==
    /\ ret.op = "read" /\ ret.arg = 0
    /\ done = <<Completion(Async("read", ret.end, 0), "BUFFER_OVERFLOW", "BUFFER_OVERFLOW", <<>>)>>
    /\ pipe_end[ret.end].message_queue # <<>>

(* the pending flush of pipe end e is completed with success by the request *)
FlushedNow(d, e) ==
    \E i \in 1..Len(d) : d[i].async = Async("flush", e, 0) /\ d[i].status = "SUCCESS"

(* C14: in both I/O modes a flush async is completed with success only once
   the peer has consumed all the data that was queued for it when the flush
   was issued, whatever reads, FSCTL_PIPE_DISCONNECT requests and closes
   come in between *)
C14_FlushAfterDrain ==
    [][\A e \in Ends : FlushedNow(done', e) => owed'[e] = 0]_vars

(* the flush asyncs pending on pipe end e *)
PendingFlushes(e) == FlushesOn(Heap, e)

(* pipe end e is a connected message-mode end *)
ConnectedMsgEnd(e) ==
    pipe_end[e].alive /\ use_server_io(Heap, e) /\ pipe_end[e].connection # NULL

(* C15: a flush on a connected message-mode end completes at once, with no
   async queued, when the peer's message queue is empty; otherwise it returns
   pending with its async queued on the end's fd, and the async is completed
   with success by the read that empties the peer's queue, at that moment
   and not before, while the connection stays up *)
C15_MessageFlush ==
    [][\A e \in Ends :
          ConnectedMsgEnd(e) =>
              LET r == pipe_end[e].connection
                  flush == Async("flush", e, 0)
              IN  /\ (ret'.op = "flush" /\ ret'.end = e /\ pipe_end[r].message_queue = <<>>) =>
                         /\ ret'.status = "SUCCESS"
                         /\ done' = <<>>
                         /\ PendingFlushes(e)' = PendingFlushes(e)
                  /\ (ret'.op = "flush" /\ ret'.end = e /\ pipe_end[r].message_queue # <<>>) =>
                         /\ ret'.status = "PENDING"
                         /\ done' = <<>>
                         /\ PendingFlushes(e)' = Append(PendingFlushes(e), flush)
                  /\ (PendingFlushes(e) # <<>> /\ pipe_end'[e].connection = r
                         /\ pipe_end'[r].message_queue = <<>>) =>
                         /\ ret'.op = "read" /\ ret'.end = r
                         /\ PendingFlushes(e)' = <<>>
                         /\ SelectSeq(done', LAMBDA x : x.async = flush)
                                = [i \in 1..Len(PendingFlushes(e)) |->
                                      Completion(flush, "SUCCESS", "SUCCESS", <<>>)]
                  /\ (pipe_end'[e].connection = r /\ pipe_end'[r].message_queue # <<>>) =>
                         ~FlushedNow(done', e)
                  /\ (PendingFlushes(e) # <<>> /\ pipe_end'[e].connection = r
                         /\ pipe_end'[r].message_queue # <<>>) =>
                         /\ Len(PendingFlushes(e)') >= Len(PendingFlushes(e))
                         /\ SubSeq(PendingFlushes(e)', 1, Len(PendingFlushes(e)))
                                = PendingFlushes(e)
      ]_vars

(* a read by the peer has just emptied its queue and completed the pending
   flush of a still connected message-mode end *)
C15_Witness ==
    /\ ret.op = "read"
    /\ pipe_end[ret.end].connection # NULL
    /\ pipe_end[ret.end].message_queue = <<>>
    /\ use_server_io(Heap, ret.end)
    /\ FlushedNow(done, pipe_end[ret.end].connection)

(* the server of the connection pipe end e belongs to *)
ServerOf(e) == IF e \in Servers THEN e ELSE client[e].server

(* pipe end e is a connected byte-mode end whose peer has unread data *)
UnreadAtPeer(e) ==
    /\ pipe_end[e].alive /\ ~use_server_io(Heap, e)
    /\ pipe_end[e].fd = "sock" /\ pipe_end[e].connection # NULL
    /\ sock[pipe_end[e].connection] > 0

(* C16: a byte-mode flush on either end of a connected pipe whose reader's
   socket holds unread data returns pending with its async queued and the
   poll timer armed; a firing of the timer keeps it armed while data remains
   and otherwise completes the flush with success *)
C16_ByteFlush ==
    [][/\ \A e \in Ends :
              (UnreadAtPeer(e) /\ ret'.op = "flush" /\ ret'.end = e) =>
                  /\ ret'.status = "PENDING"
                  /\ PendingFlushes(e)' = Append(PendingFlushes(e), Async("flush", e, 0))
                  /\ server'[ServerOf(e)].flush_poll
       /\ \A s \in Servers :
              (ret'.op = "timer" /\ ret'.end = s) =>
                  IF pipe_data_remaining(Heap, s)
                  THEN server'[s].flush_poll /\ done' = <<>>
                  ELSE /\ ~server'[s].flush_poll
                       /\ PendingFlushes(s) # <<>>
                       /\ FlushedNow(done', s)
                       /\ PendingFlushes(s)' = <<>>
      ]_vars

(* the completions of the asyncs of queue q, in order, with one status *)
AllWoken(q, status) ==
    [i \in 1..Len(q) |-> Completion(q[i], status, status, <<>>)]

(* C17: FSCTL_PIPE_WAIT on an existing pipe completes at once with success,
   queueing nothing, exactly when an instance is in wait_open or idle_server;
   otherwise the async joins the waiters of the pipe and the request is
   pending; a listen that takes an instance from idle_server or wait_connect
   to wait_open completes every waiter with success and empties the queue *)
C17_PipeWait ==
    [][/\ (ret'.op = "wait" /\ pipe.exists) =>
              /\ done' = <<>>
              /\ IF \E s \in Servers : server[s].state \in {"wait_open", "idle_server"}
                 THEN ret'.status = "SUCCESS" /\ pipe'.waiters = pipe.waiters
                 ELSE /\ ret'.status = "PENDING"
                      /\ pipe'.waiters = Append(pipe.waiters, Async("wait", NULL, 0))
       /\ \A s \in Servers :
              (ret'.op = "listen" /\ ret'.end = s
                  /\ server[s].state \in {"idle_server", "wait_connect"}) =>
                  /\ server'[s].state = "wait_open"
                  /\ pipe'.waiters = <<>>
                  /\ done' = AllWoken(pipe.waiters, "SUCCESS")
      ]_vars

C17_Witness ==
    /\ ret.op = "listen" /\ ret.status = "PENDING"
    /\ done = AllWoken(<<Async("wait", NULL, 0), Async("wait", NULL, 0)>>, "SUCCESS")
    /\ pipe.waiters = <<>>
    /\ server[ret.end].state = "wait_open"

(* the objects as the request after the one that left h finds them *)
NextRequest(h) == [h EXCEPT !.done = <<>>, !.err = "SUCCESS"]

(* of two client opens on the objects as they are, the first is paired with
   server s and the second fails with pipe_not_available, changing nothing *)
OpensRace(s) ==
    LET c == Lowest(FreeIn(Clients))
        second(h) ==
            LET h2 == named_pipe_open_file(NextRequest(h), NULL, RW)
            IN  h2 = [NextRequest(h) EXCEPT !.err = "PIPE_NOT_AVAILABLE"]
        first(h) == PairedAfresh(h, s, c) /\ second(h)
    IN  first(named_pipe_open_file(Heap, c, RW))

(* C18 as stated: FSCTL_PIPE_WAIT requests issued on a name before any server
   instance of it exists are left waiting; when a server of a pipe created
   with max_instances 1 listens, every waiter completes with success, and of
   the two client opens that follow the first succeeds and the second fails
   with pipe_not_available *)
C18_WaitBeforeServer ==
    [][/\ (ret'.op = "wait" /\ ~pipe.exists) =>
              /\ ret'.status = "PENDING"
              /\ pipe'.waiters = Append(pipe.waiters, Async("wait", NULL, 0))
       /\ \A s \in Servers :
              (ret'.op = "listen" /\ ret'.end = s /\ ret'.status = "PENDING"
                  /\ pipe.maxinstances = 1) =>
                  /\ done' = AllWoken(pipe.waiters, "SUCCESS")
                  /\ pipe'.waiters = <<>>
                  /\ FreeIn(Clients) # {} => OpensRace(s)'
      ]_vars

(* C18 amended: a FSCTL_PIPE_WAIT on a name no pipe has fails at once and
   queues nothing; on a pipe created with max_instances 1 whose instance is
   neither idle nor listening the request is pending and its async queued;
   when that instance listens, every waiter completes with success, and of
   the two client opens that follow the first succeeds and the second fails
   with pipe_not_available *)
C18_WaitersRace ==
    [][/\ (ret'.op = "wait" /\ ~pipe.exists) =>
              /\ ret'.status \notin {"SUCCESS", "PENDING"}
              /\ done' = <<>>
              /\ pipe' = pipe
       /\ (ret'.op = "wait" /\ pipe.exists /\ pipe.maxinstances = 1
              /\ \A s \in Servers : server[s].state \notin {"wait_open", "idle_server"}) =>
              /\ ret'.status = "PENDING"
              /\ pipe'.waiters = Append(pipe.waiters, Async("wait", NULL, 0))
       /\ \A s \in Servers :
              (ret'.op = "listen" /\ ret'.end = s /\ ret'.status = "PENDING"
                  /\ pipe.maxinstances = 1) =>
                  /\ done' = AllWoken(pipe.waiters, "SUCCESS")
                  /\ pipe'.waiters = <<>>
                  /\ FreeIn(Clients) # {} => OpensRace(s)'
      ]_vars

C18_Witness ==
    /\ ret.op = "listen" /\ ret.status = "PENDING"
    /\ pipe.maxinstances = 1 /\ Len(pipe.servers) = 1
    /\ Len(done) = WaitCallers
    /\ \A i \in 1..Len(done) : done[i].async.kind = "wait" /\ done[i].status = "SUCCESS"
    /\ FreeIn(Clients) # {}
    /\ OpensRace(ret.end)

(* the server a create request would be given, if one can still be allocated *)
NextServer == IF FreeIn(Servers) = {} THEN NULL ELSE Lowest(FreeIn(Servers))

(* the request that left h failed with status and changed no object *)
Rejected(h, status) == h = [Heap EXCEPT !.err = status]

(* C19 as stated: a create_named_pipe request for an existing name fails with
   access_denied when its sharing differs from the sharing of the pipe and
   with instance_not_available when the pipe has max_instances instances;
   either way no server is created and the pipe is unchanged *)
C19_RejectsAsStated ==
    (~aborted /\ pipe.exists) =>
        \A req \in AnyCreateReqs :
            LET post(h) ==
                    /\ req.sharing # pipe.sharing => Rejected(h, "ACCESS_DENIED")
                    /\ pipe.instances >= pipe.maxinstances =>
                           Rejected(h, "INSTANCE_NOT_AVAILABLE")
            IN  post(create_named_pipe(Heap, NextServer, req))

(* a create request that passes the parameter check of the handler *)
ValidCreate(req) ==
    /\ req.sharing # {} /\ req.sharing \subseteq {SHARE_READ, SHARE_WRITE}
    /\ ~(MSG_WRITE \notin req.flags /\ MSG_READ \in req.flags)

(* C19 amended: a valid create_named_pipe request for an existing name fails
   with instance_not_available when the pipe has max_instances instances, and
   otherwise with access_denied when its sharing differs from the sharing of
   the pipe; either way no server is created and the pipe is unchanged *)
C19_RejectsInOrder ==
    (~aborted /\ pipe.exists) =>
        \A req \in {r \in AnyCreateReqs : ValidCreate(r)} :
            LET post(h) ==
                    IF pipe.instances >= pipe.maxinstances
                    THEN Rejected(h, "INSTANCE_NOT_AVAILABLE")
                    ELSE req.sharing # pipe.sharing => Rejected(h, "ACCESS_DENIED")
            IN  post(create_named_pipe(Heap, NextServer, req))

C19_Witness ==
    /\ ret.op = "create" /\ ret.status = "ACCESS_DENIED"
    /\ pipe.exists /\ pipe.instances < pipe.maxinstances
    /\ Len(pipe.servers) = pipe.instances

(* C20: whatever max_instances the first create request quoted, 0 included,
   the instance count of a named pipe never exceeds its max_instances *)
C20_InstancesWithinMax ==
    pipe.exists => pipe.instances <= pipe.maxinstances

(* the client an open would be given, if one can still be allocated *)
NextClient == IF FreeIn(Clients) = {} THEN NULL ELSE Lowest(FreeIn(Clients))

(* access asks for reading or writing that the sharing of the pipe excludes *)
AccessExcluded(access) ==
    \/ GENERIC_READ \in access /\ SHARE_READ \notin pipe.sharing
    \/ GENERIC_WRITE \in access /\ SHARE_WRITE \notin pipe.sharing

(* C21: a client open asking for read access on a pipe without share-read, or
   for write access on a pipe without share-write, fails with access_denied
   when a server is available and with pipe_not_available when none is; it
   creates no client and leaves the server, its pending listen and every
   pointer as they were *)
C21_OpenDenied ==
    (~aborted /\ pipe.exists) =>
        \A access \in SUBSET RW :
            AccessExcluded(access) =>
                LET post(h) ==
                        IF \E s \in Servers : server[s].state \in {"wait_open", "idle_server"}
                        THEN Rejected(h, "ACCESS_DENIED")
                        ELSE Rejected(h, "PIPE_NOT_AVAILABLE")
                IN  post(named_pipe_open_file(Heap, NextClient, access))

(* an open has just been denied while a server was listening with its listen
   async pending *)
C21_Witness ==
    /\ ret.op = "open" /\ ret.status = "ACCESS_DENIED" /\ ret.obj = NULL
    /\ ret.end \in Servers
    /\ server[ret.end].state = "wait_open"
    /\ server[ret.end].ioctl_wait = <<ListenAsync(ret.end)>>
    /\ FreeIn(Clients) = Clients

(* the status a read request on end e is answered with *)
ReadReply(e) ==
    IF e \in Clients /\ ~pipe_client_get_fd(Heap, e) THEN "PIPE_DISCONNECTED"
    ELSE pipe_end_read(Heap, e, 1).err

(* the status a write request on end e is answered with *)
WriteReply(e) ==
    IF e \in Clients /\ ~pipe_client_get_fd(Heap, e) THEN "PIPE_DISCONNECTED"
    ELSE pipe_end_write(Heap, e, <<1>>).err

(* end e, if it still exists and has nothing left to read, answers a read and
   a write with status *)
GoneWith(e, status) ==
    (pipe_end[e].alive /\ pipe_end[e].message_queue = <<>>) =>
        ReadReply(e) = status /\ WriteReply(e) = status

(* every async completed by the last request was completed with status *)
AllDone(status) == \A i \in 1..Len(done) : done[i].status = status

(* C22: on a message-mode connection, the asyncs pending when the connection
   goes and the reads and writes issued on either end afterwards fail with
   pipe_disconnected when FSCTL_PIPE_DISCONNECT ended the connection and with
   pipe_broken when the peer end was destroyed *)
C22_GoneStatus ==
    [][\A s \in Servers, c \in Clients :
          (server[s].state = "connected_server" /\ server[s].client = c
              /\ use_server_io(Heap, s)) =>
              /\ (ret'.op = "disconnect" /\ ret'.end = s) =>
                     /\ AllDone("PIPE_DISCONNECTED")'
                     /\ GoneWith(s, "PIPE_DISCONNECTED")'
                     /\ GoneWith(c, "PIPE_DISCONNECTED")'
              /\ (ret'.op = "close_client" /\ ret'.end = c) =>
                     AllDone("PIPE_BROKEN")' /\ GoneWith(s, "PIPE_BROKEN")'
              /\ (ret'.op = "close_server" /\ ret'.end = s) =>
                     AllDone("PIPE_BROKEN")' /\ GoneWith(c, "PIPE_BROKEN")'
      ]_vars

(* the bytes of message m that no read has taken yet *)
Unread(m) == Len(m.data) - m.read_pos

(* the unread bytes of the messages of queue q, counted from its tail *)
RECURSIVE UnreadOf(_)
UnreadOf(q) ==
    IF q = <<>> THEN 0 ELSE UnreadOf(SubSeq(q, 1, Len(q) - 1)) + Unread(q[Len(q)])

(* C23: FSCTL_PIPE_PEEK on a message-mode end, with a reply buffer that holds
   the fixed part of the peek buffer, returns as ReadDataAvailable the unread
   bytes of all queued messages and as MessageLength those of the head
   message, 0 when there is none, and changes no message, queue or async; on
   a byte-mode end it fails with not_supported *)
C23_Peek ==
    ~aborted =>
        \A e \in Ends, room \in 0..1 :
            (pipe_end[e].alive /\ pipe_end[e].fd # "none") =>
                LET q == pipe_end[e].message_queue
                    post(r) ==
                        IF use_server_io(Heap, e)
                        THEN /\ r.h = Heap
                             /\ r.reply.ReadDataAvailable = UnreadOf(q)
                             /\ r.reply.MessageLength = IF q = <<>> THEN 0 ELSE Unread(q[1])
                        ELSE r.h = [Heap EXCEPT !.err = "NOT_SUPPORTED"]
                IN  post(pipe_end_peek(Heap, e, TRUE, room))

(* a peek has just answered for a queue of two messages whose head is partly
   read *)
C23_Witness ==
    /\ ret.op = "peek" /\ ret.status = "SUCCESS"
    /\ Len(pipe_end[ret.end].message_queue) = 2
    /\ pipe_end[ret.end].message_queue[1].read_pos = 1
    /\ ret.arg = 2 /\ ret.obj = 1

(* the byte labels of sequence d *)
Range(d) == {d[k] : k \in 1..Len(d)}

(* message j of queue q waits for room: it is not empty and the unread bytes
   from the head of q up to it exceed size *)
BeyondBudget(q, j, size) ==
    Len(q[j].data) # 0 /\ UnreadOf(SubSeq(q, 1, j)) > size

(* C24: when the pending write async of a queued message is cancelled, the
   async is terminated with the cancel status and the message leaves the
   queue of the reader, partly read or not, so that none of its bytes stays
   to be read; the messages behind it keep their bytes and order and are
   re-evaluated for flow control without it *)
C24_CancelWrite ==
    [][\A e \in Ends :
          (ret'.op = "cancel" /\ ret'.end = e) =>
              LET r == pipe_end[e].connection
                  q == pipe_end[r].message_queue
                  m == q[ret'.arg]
                  rest == RemoveAt(q, ret'.arg)
                  left == pipe_end'[r].message_queue
              IN  /\ done'[1] = Completion(m.async, "CANCELLED", "CANCELLED", <<>>)
                  /\ \A x \in Ends :
                         \A j \in 1..Len(pipe_end'[x].message_queue) :
                             Range(pipe_end'[x].message_queue[j].data) \cap Range(m.data) = {}
                  /\ Len(left) = Len(rest)
                  /\ \A j \in 1..Len(rest) :
                         /\ left[j].data = rest[j].data
                         /\ left[j].read_pos = rest[j].read_pos
                         /\ left[j].async # NoAsync <=>
                                (rest[j].async # NoAsync
                                    /\ BeyondBudget(rest, j, pipe_end[r].buffer_size))
                         /\ (rest[j].async # NoAsync /\ left[j].async = NoAsync) =>
                                \E k \in 2..Len(done') :
                                    done'[k].async = rest[j].async /\ done'[k].iosb = "SUCCESS"
      ]_vars

(* the pending write of a two-byte head message has just been cancelled, and
   the write of the message behind it, which no longer waits for room,
   completed *)
C24_Witness ==
    /\ ret.op = "cancel" /\ ret.arg = 1
    /\ Len(done) = 2
    /\ done[1].status = "CANCELLED" /\ done[1].async.size = 2
    /\ done[2].async.kind = "write" /\ done[2].iosb = "SUCCESS"
    /\ Len(pipe_end[pipe_end[ret.end].connection].message_queue) = 1
    /\ pipe_end[pipe_end[ret.end].connection].message_queue[1].data[1] > 2

(* every connection edge is answered by the edge back from a live end *)
ConnectionSymmetric ==
    \A e \in Ends :
        pipe_end[e].connection # NULL =>
            /\ pipe_end[e].alive
            /\ pipe_end[pipe_end[e].connection].alive
            /\ pipe_end[pipe_end[e].connection].connection = e

(* C25: between requests, the connection of every pipe end is null or points
   to an end whose connection points back; an edge is set only by a
   successful client open, between the client and the server it pairs, and
   cleared only by a request that runs pipe_end_disconnect, which leaves the
   connection of both ends null *)
C25_ConnectionEdges ==
    [][/\ ConnectionSymmetric'
       /\ \A e \in Ends :
              /\ (pipe_end[e].connection = NULL /\ pipe_end'[e].connection # NULL) =>
                     /\ ret'.op = "open" /\ ret'.status = "SUCCESS"
                     /\ {e, pipe_end'[e].connection} = {ret'.end, ret'.obj}
              /\ (pipe_end[e].connection # NULL
                     /\ pipe_end'[e].connection # pipe_end[e].connection) =>
                     /\ ret'.op \in {"disconnect", "close_server", "close_client"}
                     /\ ret'.end \in {e, pipe_end[e].connection}
                     /\ pipe_end'[e].connection = NULL
                     /\ pipe_end'[pipe_end[e].connection].connection = NULL
      ]_vars

(* a disconnect has just cleared both edges of a connection that had messages
   queued, while both ends live on *)
C25_Witness ==
    /\ ret.op = "disconnect" /\ ret.status = "SUCCESS"
    /\ done # <<>>
    /\ \E c \in Clients : pipe_end[c].alive /\ pipe_end[c].connection = NULL
    /\ pipe_end[ret.end].alive /\ pipe_end[ret.end].connection = NULL
    /\ ConnectionSymmetric

(* C26: between requests, also after a client open that failed part-way, a
   pipe server has a data fd exactly when its state is connected_server or
   wait_disconnect, and no assertion on the presence of the fd has failed *)
C26_FdIffState ==
    ~aborted =>
        \A s \in Servers :
            pipe_end[s].alive =>
                (pipe_end[s].fd # "none"
                     <=> server[s].state \in {"connected_server", "wait_disconnect"})

(* C27: between requests the instance count of the named pipe equals the
   length of its server list, after creates that succeed or fail at any step
   and after server destructions *)
C27_InstancesCountServers ==
    (~aborted /\ pipe.exists) => pipe.instances = Len(pipe.servers)

(* C28: no create_named_pipe request, failing ones included, destroys a pipe
   server while the instance count of its pipe is zero: the assertion of
   pipe_server_destroy holds in the request *)
C28_DestroyAssertion ==
    [][(~aborted /\ ret'.op = "create") => ~aborted']_vars

(* the messages of queue q whose write is pending *)
PendingIn(q) == SelectSeq(q, LAMBDA m : m.async # NoAsync)

(* the completions in d that report a write of pipe end e complete *)
WritesReported(d, e) ==
    SelectSeq(d, LAMBDA x : x.async.kind = "write" /\ x.async.end = e /\ x.iosb = "SUCCESS")

(* C29: after the write-reselect that a write, or a read that took data, runs
   on a connected message-mode pipe, a message queued at the reader has had
   its write reported complete exactly when it is zero-length or the unread
   bytes from the head of the queue up to it are within the reader's
   buffer_size; every other message stays pending, and each write that left
   the pending ones was reported to the writer with success *)
C29_WriteBudget ==
    ~aborted =>
        \A e \in Ends, size \in 0..2 :
            (pipe_end[e].alive /\ use_server_io(Heap, e) /\ pipe_end[e].connection # NULL) =>
                LET r == pipe_end[e].connection
                    post(h, written) ==
                        LET q == h.pipe_end[r].message_queue
                        IN  /\ \A j \in 1..Len(q) :
                                   /\ q[j].async = NoAsync
                                          <=> ~BeyondBudget(q, j, h.pipe_end[r].buffer_size)
                                   /\ q[j].status = (IF q[j].async = NoAsync
                                                     THEN "SUCCESS" ELSE "PENDING")
                            /\ Len(WritesReported(h.done, e))
                                   = Len(PendingIn(pipe_end[r].message_queue)) + written
                                         - Len(PendingIn(q))
                IN  /\ post(pipe_end_write(Heap, e, Bytes(nbytes, size)), 1)
                    /\ post(pipe_end_read(Heap, r, 1), 0)

(* a zero-length message has just been written behind a two-byte message that
   waits for room: the zero-length write completed, the other stays pending *)
C29_Witness ==
    /\ ret.op = "write" /\ ret.arg = 0 /\ ret.status = "PENDING"
    /\ pipe_end[ret.end].connection # NULL
    /\ LET q == pipe_end[pipe_end[ret.end].connection].message_queue
       IN  /\ Len(q) = 2
           /\ Len(q[1].data) = 2 /\ q[1].async # NoAsync
           /\ q[2].data = <<>> /\ q[2].async = NoAsync
    /\ done = <<Completion(Async("write", ret.end, 0), "SUCCESS", "SUCCESS", <<>>)>>

(* the completions in d of write asyncs *)
WritesIn(d) == SelectSeq(d, LAMBDA x : x.async.kind = "write")

(* C30: pipe_end_disconnect( end, status ) on a message-mode connection
   terminates with status the writer async of every message of either queue
   whose write was pending when the call began, and removes those messages;
   when it returns both connection edges are null and no message of either
   queue has a writer async *)
C30_DisconnectTerminates ==
    ~aborted =>
        \A e \in Ends, status \in {"PIPE_DISCONNECTED", "PIPE_BROKEN"} :
            (pipe_end[e].alive /\ use_server_io(Heap, e) /\ pipe_end[e].connection # NULL) =>
                LET c == pipe_end[e].connection
                    post(h) ==
                        /\ Len(WritesIn(h.done))
                               = Len(PendingIn(pipe_end[e].message_queue))
                                     + Len(PendingIn(pipe_end[c].message_queue))
                        /\ \A k \in 1..Len(WritesIn(h.done)) :
                               /\ WritesIn(h.done)[k].status = status
                               /\ WritesIn(h.done)[k].iosb = status
                        /\ h.pipe_end[e].connection = NULL
                        /\ h.pipe_end[c].connection = NULL
                        /\ PendingIn(h.pipe_end[e].message_queue) = <<>>
                        /\ PendingIn(h.pipe_end[c].message_queue) = <<>>
                IN  post(pipe_end_disconnect(Heap, e, status))

(* C31 as stated: every queued message has a writer async and a pending
   iosb, a message whose iosb is completed being removed from the queue *)
C31_CompletedRemoved ==
    ~aborted =>
        \A e \in Ends :
            \A j \in 1..Len(pipe_end[e].message_queue) :
                /\ pipe_end[e].message_queue[j].async # NoAsync
                /\ pipe_end[e].message_queue[j].status = "PENDING"

(* C31: between requests a queued message has a writer async exactly while
   its iosb is pending; once the iosb is completed, with success, the async
   has been released, and the message stays in the queue for the reader *)
C31_AsyncWhilePending ==
    ~aborted =>
        \A e \in Ends :
            \A j \in 1..Len(pipe_end[e].message_queue) :
                LET m == pipe_end[e].message_queue[j]
                IN  /\ m.async # NoAsync <=> m.status = "PENDING"
                    /\ m.async = NoAsync => m.status = "SUCCESS"
                    /\ m.async # NoAsync =>
                           m.async = Async("write", pipe_end[e].connection, Len(m.data))

(* a queue holds a message whose write completed, in front of one whose write
   is pending *)
C31_Witness ==
    \E e \in Ends :
        /\ Len(pipe_end[e].message_queue) = 2
        /\ pipe_end[e].message_queue[1].async = NoAsync
        /\ pipe_end[e].message_queue[1].status = "SUCCESS"
        /\ pipe_end[e].message_queue[2].async # NoAsync
        /\ pipe_end[e].message_queue[2].status = "PENDING"

(* C32: ignore_reselect is false between requests; while it is true, the
   reselect notification that terminating an async raises returns without
   running reselect_read_queue or reselect_write_queue, even when a write
   that could complete is queued *)
C32_IgnoreReselect ==
    ~aborted =>
        /\ ~ignore_reselect
        /\ \A e \in Ends :
               (pipe_end[e].alive /\ use_server_io(Heap, e) /\ pipe_end[e].connection # NULL) =>
                   LET r == pipe_end[e].connection
                       inside == [Heap EXCEPT
                                     !.ignore_reselect = TRUE,
                                     !.pipe_end[r].message_queue =
                                         Append(@, Message(<<>>, Async("write", e, 0)))]
                       same(h, a) ==
                           h = [inside EXCEPT
                                   !.done = <<Completion(a, "SUCCESS", "SUCCESS", <<>>)>>]
                       quiet(a) == same(async_terminate(inside, a, "SUCCESS", "SUCCESS", <<>>), a)
                   IN  quiet(Async("write", e, 1)) /\ quiet(Async("read", r, 1))

(* a write has just completed a pending read of its reader: the reselect of
   the write queue terminated the write and ran the read queue, and the flag
   is false again *)
C32_Witness ==
    /\ ret.op = "write" /\ ret.status = "PENDING"
    /\ ~ignore_reselect
    /\ \E k \in 1..Len(done) : done[k].async.kind = "write"
    /\ \E k \in 1..Len(done) : done[k].async.kind = "read"

(* C33: a client open that fails after a server was selected creates
   nothing that lasts: no assertion fails, and the pipe, every server, every
   client, every pipe end with its fd and connection, and every socket are as
   they were before the open, so that the server can be opened again *)
C33_OpenRollsBack ==
    [][(~aborted /\ ret'.op = "open" /\ ret'.status = "NO_MEMORY") =>
           /\ ~aborted'
           /\ pipe' = pipe
           /\ server' = server
           /\ client' = client
           /\ pipe_end' = pipe_end
           /\ sock' = sock
           /\ find_available_server(Heap)' = find_available_server(Heap)
      ]_vars

(* the messages in the queues pe of the ends in S whose write, issued on pipe
   end e, is pending *)
RECURSIVE PendingBy(_, _, _)
PendingBy(pe, e, S) ==
    IF S = {} THEN 0
    ELSE LET x == CHOOSE y \in S : TRUE
         IN  Len(SelectSeq(pe[x].message_queue, LAMBDA m : m.async = Async("write", e, Len(m.data))))
                 + PendingBy(pe, e, S \ {x})

(* the status a request that tears a connection down terminates asyncs with *)
TeardownStatus(op) ==
    IF op = "disconnect" THEN "PIPE_DISCONNECTED"
    ELSE IF op \in {"close_server", "close_client"} THEN "PIPE_BROKEN"
    ELSE "none"

(* C34: every message-mode write async is completed exactly once: in each
   request the writes of an end that are reported are exactly those that
   stop being pending, so none is reported twice and none that was reported
   is terminated again; each is reported with success by wake_message, with
   the cancel status by its cancellation, or with the teardown status by a
   disconnect or a destruction *)
C34_WriteOnce ==
    [][(~aborted /\ ~aborted') =>
           \A e \in Ends :
               LET w == SelectSeq(done', LAMBDA x : x.async.kind = "write" /\ x.async.end = e)
                   new == IF ret'.op = "write" /\ ret'.end = e /\ ret'.status = "PENDING"
                          THEN 1 ELSE 0
               IN  /\ Len(w) = PendingBy(pipe_end, e, Ends) + new - PendingBy(pipe_end', e, Ends)
                   /\ \A k \in 1..Len(w) :
                          \/ w[k].iosb = "SUCCESS" /\ w[k].status \in {"SUCCESS", "ALERTED"}
                          \/ /\ ret'.op = "cancel" /\ ret'.end = e
                             /\ w[k].iosb = "CANCELLED" /\ w[k].status = "CANCELLED"
                          \/ /\ w[k].iosb = TeardownStatus(ret'.op)
                             /\ w[k].status = TeardownStatus(ret'.op)
      ]_vars

(* the client has just been destroyed while one write of the server was
   pending in its queue behind a completed one: the pending write was
   terminated with pipe_broken, the completed one was not reported again *)
C34_Witness ==
    /\ ret.op = "close_client"
    /\ done = <<Completion(Async("write", ret.obj, 2), "PIPE_BROKEN", "PIPE_BROKEN", <<>>)>>
    /\ pipe_end[ret.obj].alive

(* C35: in every reachable state a server has a client exactly when it is in
   connected_server, the client of a server points back to it and the server
   of a client points back to the client; so destroying any client and
   FSCTL_PIPE_DISCONNECT on any server fail none of their assertions *)
C35_ClientIffConnected ==
    ~aborted =>
        /\ \A s \in Servers :
               pipe_end[s].alive =>
                   /\ server[s].client # NULL <=> server[s].state = "connected_server"
                   /\ server[s].client # NULL =>
                          /\ pipe_end[server[s].client].alive
                          /\ client[server[s].client].server = s
                   /\ LET holds(h) == ~h.aborted
                      IN  holds(pipe_server_disconnect(Heap, s))
        /\ \A c \in Clients :
               pipe_end[c].alive =>
                   /\ client[c].server # NULL =>
                          /\ pipe_end[client[c].server].alive
                          /\ server[client[c].server].client = c
                   /\ LET holds(h) == ~h.aborted
                      IN  holds(pipe_client_destroy(Heap, c))

(* one server is connected to the client while another, whose client was
   destroyed, waits in wait_disconnect without client *)
C35_Witness ==
    \E s \in Servers, t \in Servers, c \in Clients :
        /\ server[s].state = "connected_server"
        /\ server[s].client = c /\ client[c].server = s
        /\ server[t].state = "wait_disconnect" /\ server[t].client = NULL

(* C36: the two ends of every connected pair agree on the I/O mode: the
   message-stream-write bit of the server end, of the client end and of the
   named pipe are equal, whatever flags each instance was created with and
   whatever set_named_pipe_info requests were made *)
C36_ModeAgrees ==
    ~aborted =>
        \A s \in Servers :
            (pipe_end[s].alive /\ server[s].state = "connected_server") =>
                /\ MSG_WRITE \in pipe_end[s].flags <=> MSG_WRITE \in pipe.flags
                /\ MSG_WRITE \in pipe_end[server[s].client].flags <=> MSG_WRITE \in pipe.flags

(* C37: whenever a FSCTL_PIPE_WAIT async is pending in the waiters queue of
   the pipe, no instance of the pipe is in wait_open or idle_server *)
C37_WaitersMeanNoServer ==
    (~aborted /\ pipe.exists /\ pipe.waiters # <<>>) =>
        \A s \in Servers :
            pipe_end[s].alive => server[s].state \notin {"wait_open", "idle_server"}

(* sequence a is sequence b with some elements left out *)
RECURSIVE IsSubSeq(_, _)
IsSubSeq(a, b) ==
    IF a = <<>> THEN TRUE
    ELSE IF b = <<>> THEN FALSE
    ELSE IF Head(a) = Head(b) THEN IsSubSeq(Tail(a), Tail(b))
    ELSE IsSubSeq(a, Tail(b))

(* the messages of queue q whose write has been reported complete *)
CompletedIn(q) == SelectSeq(q, LAMBDA m : m.async = NoAsync)

(* C38: on a message-mode pipe, when the peer of an end is destroyed the
   messages in the queue of the surviving end whose write was reported
   complete stay there, unchanged and in order; a read on an end without
   connection is given the next unread byte while its queue holds data and
   fails with pipe_broken only when the queue is empty; after a successful
   FSCTL_PIPE_DISCONNECT the queues of the server and of its client are
   empty *)
C38_DataAfterTeardown ==
    [][(~aborted /\ ~aborted') =>
           \A e \in Ends :
               /\ (ret'.op \in {"close_server", "close_client"} /\ ret'.end = e
                      /\ use_server_io(Heap, e) /\ pipe_end[e].connection # NULL) =>
                      LET p == pipe_end[e].connection
                      IN  /\ pipe_end'[p].alive
                          /\ pipe_end'[p].read_q = <<>>
                          /\ IsSubSeq(CompletedIn(pipe_end[p].message_queue),
                                      pipe_end'[p].message_queue)
                          /\ pipe_end'[p].message_queue
                                 = CompletedIn(pipe_end'[p].message_queue)
               /\ (ret'.op = "read" /\ ret'.end = e /\ use_server_io(Heap, e)
                      /\ pipe_end[e].connection = NULL /\ pipe_end[e].fd # "none") =>
                      LET q == pipe_end[e].message_queue
                      IN  IF q = <<>>
                          THEN /\ ret'.status = "PIPE_BROKEN"
                               /\ done' = <<>>
                               /\ pipe_end' = pipe_end
                          ELSE /\ ret'.status = "PENDING"
                               /\ Len(done') = 1
                               /\ done'[1].async = Async("read", e, 1)
                               /\ done'[1].data = <<q[1].data[q[1].read_pos + 1]>>
                               /\ UnreadOf(pipe_end'[e].message_queue) = UnreadOf(q) - 1
               /\ (ret'.op = "disconnect" /\ ret'.end = e /\ ret'.status = "SUCCESS"
                      /\ use_server_io(Heap, e)) =>
                      /\ pipe_end'[e].message_queue = <<>>
                      /\ server[e].client # NULL =>
                             pipe_end'[server[e].client].message_queue = <<>>
      ]_vars

(* a server whose client was destroyed has just read the byte that the
   client had written before, which empties its queue *)
C38_Witness ==
    /\ ret.op = "read" /\ ret.end \in Servers
    /\ server[ret.end].state = "wait_disconnect"
    /\ pipe_end[ret.end].connection = NULL
    /\ Len(done) = 1 /\ done[1].data # <<>>
    /\ pipe_end[ret.end].message_queue = <<>>

(* C39: destroying a client whose connection was already ended, by
   FSCTL_PIPE_DISCONNECT or by the destruction of its server, fails no
   assertion and leaves the pipe and every server as they were: state, client
   pointer, connection, data fd, queues and socket *)
C39_StaleClientDestroy ==
    [][\A c \in Clients :
          (~aborted /\ ret'.op = "close_client" /\ ret'.end = c
              /\ client[c].server = NULL /\ pipe_end[c].connection = NULL) =>
              /\ ~aborted'
              /\ pipe' = pipe
              /\ server' = server
              /\ \A s \in Servers : pipe_end'[s] = pipe_end[s] /\ sock'[s] = sock[s]
              /\ ~pipe_end'[c].alive
      ]_vars

(* a client whose server disconnected it has just been destroyed after that
   server listened again: the server is still listening *)
C39_Witness ==
    /\ ret.op = "close_client" /\ ret.obj = NULL
    /\ ~pipe_end[ret.end].alive
    /\ \E s \in Servers :
           /\ server[s].state = "wait_open"
           /\ server[s].ioctl_wait # <<>>
           /\ s \in relistened

(* C40: whenever the flush_poll timer of a server is armed the server is in
   connected_server with a live client and a data fd; FSCTL_PIPE_DISCONNECT,
   the destruction of its client and its own destruction cancel the timer,
   so that the timer callback, notify_empty and pipe_data_remaining fail no
   assertion and no server outside connected_server has a timer *)
C40_TimerOnlyConnected ==
    ~aborted =>
        \A s \in Servers :
            /\ server[s].flush_poll =>
                   /\ pipe_end[s].alive
                   /\ server[s].state = "connected_server"
                   /\ server[s].client # NULL
                   /\ pipe_end[server[s].client].alive
                   /\ pipe_end[s].fd # "none"
            /\ pipe_end[s].alive =>
                   LET quiet(h) ==
                           /\ ~h.aborted
                           /\ \A t \in Servers :
                                  h.server[t].flush_poll =>
                                      /\ h.server[t].state = "connected_server"
                                      /\ h.server[t].client # NULL
                   IN  /\ quiet(pipe_server_disconnect(Heap, s))
                       /\ quiet(pipe_server_destroy(Heap, s))
                       /\ server[s].client # NULL =>
                              quiet(pipe_client_destroy(Heap, server[s].client))
                       /\ server[s].flush_poll => quiet(check_flushed(Heap, s))

(* the client of a server whose flush timer was armed has just been
   destroyed: the timer is cancelled and the server waits in wait_disconnect *)
C40_Witness ==
    /\ ret.op = "close_client" /\ ret.obj \in Servers
    /\ server[ret.obj].state = "wait_disconnect"
    /\ ~server[ret.obj].flush_poll
    /\ \E k \in 1..Len(done) : done[k].async.kind = "flush" /\ done[k].status = "SUCCESS"

====
